---------------------------- MODULE Spec2Model ----------------------------
(***************************************************************************)
(* Kunlun: ALSZ OT extension, cwPRF PSI, NIZK of discrete-log equality,    *)
(* bit-matrix transpose and Bloom filter.                                  *)
(*                                                                         *)
(* Memory is modelled as the code sees it: a buffer is a function from a   *)
(* byte address (0-based) to a byte 0..255.  A block (__m128i) is 16       *)
(* consecutive bytes, a vector<block> the concatenation of its blocks.     *)
(***************************************************************************)
EXTENDS Integers, Sequences, FiniteSets, TLC

(***************************************************************************)
(* Bytes and 128-bit blocks                                                *)
(***************************************************************************)
Pow2 == [k \in 0..16 |-> IF k = 0 THEN 1 ELSE IF k = 1 THEN 2 ELSE IF k = 2 THEN 4
         ELSE IF k = 3 THEN 8 ELSE IF k = 4 THEN 16 ELSE IF k = 5 THEN 32
         ELSE IF k = 6 THEN 64 ELSE IF k = 7 THEN 128 ELSE IF k = 8 THEN 256
         ELSE IF k = 9 THEN 512 ELSE IF k = 10 THEN 1024 ELSE IF k = 11 THEN 2048
         ELSE IF k = 12 THEN 4096 ELSE IF k = 13 THEN 8192 ELSE IF k = 14 THEN 16384
         ELSE IF k = 15 THEN 32768 ELSE 65536]

\* bit k (0 = least significant) of the byte or 16-bit value v
BitOf(v, k) == (v \div Pow2[k]) % 2

\* a ^ b and a & b on 4-bit values, tabulated once
Xor4 == [a \in 0..15 |-> [b \in 0..15 |->
           ((BitOf(a,0) + BitOf(b,0)) % 2) + 2 * ((BitOf(a,1) + BitOf(b,1)) % 2)
         + 4 * ((BitOf(a,2) + BitOf(b,2)) % 2) + 8 * ((BitOf(a,3) + BitOf(b,3)) % 2)]]

And4 == [a \in 0..15 |-> [b \in 0..15 |->
           (BitOf(a,0) * BitOf(b,0)) + 2 * (BitOf(a,1) * BitOf(b,1))
         + 4 * (BitOf(a,2) * BitOf(b,2)) + 8 * (BitOf(a,3) * BitOf(b,3))]]

XorByte(a, b) == 16 * Xor4[a \div 16][b \div 16] + Xor4[a % 16][b % 16]

AndByte(a, b) == 16 * And4[a \div 16][b \div 16] + And4[a % 16][b % 16]

\* the size in bytes of a buffer
Size(buf) == Cardinality(DOMAIN buf)

\* a zero-filled buffer of n bytes (std::vector<block> v(n/16))
Zeros(n) == [a \in 0..(n-1) |-> 0]

\* block k of a vector<block> seen as bytes
BlockAt(buf, k) == [b \in 0..15 |-> buf[16 * k + b]]

\* bytes [from, from+n) of a buffer, re-based at 0 (memcpy out of a buffer)
Slice(buf, from, n) == [a \in 0..(n-1) |-> buf[from + a]]

\* block ^ block
XorBlock(x, y) == [b \in DOMAIN x |-> XorByte(x[b], y[b])]

\* Block::XOR(vec_a, vec_b): element-wise over vec_a.size() blocks
BlockXOR(vec_a, vec_b) == [a \in DOMAIN vec_a |-> XorByte(vec_a[a], vec_b[a])]

\* Block::AND(vec_a, vec_b)
BlockAND(vec_a, vec_b) == [a \in DOMAIN vec_a |-> AndByte(vec_a[a], vec_b[a])]

(***************************************************************************)
(* BitMatrixTranspose (crypto/block.hpp)                                   *)
(***************************************************************************)
\* //#define II (i)
II_as_i(i) == i

\* #define II (i ^ 7), for 0 <= i < 16
II(i) == 8 * (i \div 8) + (7 - (i % 8))

\* #define INP(x,y) inp[(x)*ncols/8 + (y)/8]: the address
INP(ncols, x, y) == ((x * ncols) \div 8) + (y \div 8)

\* #define OUT(x,y) out[(y)*nrows/8 + (x)/8]: the address
OUT_indexed_as_INP(nrows, x, y) == ((x * nrows) \div 8) + (y \div 8)

OUT(nrows, x, y) == ((y * nrows) \div 8) + (x \div 8)

\* _mm_slli_epi64(x, 1) on the 16 bytes of an __m128i: each 64-bit lane
\* shifts left by one, bits carry from byte k-1 into byte k inside a lane
slli_epi64_1(x) ==
  [k \in 0..15 |-> ((2 * x[k]) % 256) + (IF k % 8 = 0 THEN 0 ELSE x[k-1] \div 128)]

\* _mm_movemask_epi8(x): bit k of the result is the top bit of byte k
movemask_epi8(x) ==
    (x[0] \div 128)         + 2 * (x[1] \div 128)      + 4 * (x[2] \div 128)
  + 8 * (x[3] \div 128)     + 16 * (x[4] \div 128)     + 32 * (x[5] \div 128)
  + 64 * (x[6] \div 128)    + 128 * (x[7] \div 128)    + 256 * (x[8] \div 128)
  + 512 * (x[9] \div 128)   + 1024 * (x[10] \div 128)  + 2048 * (x[11] \div 128)
  + 4096 * (x[12] \div 128) + 8192 * (x[13] \div 128)  + 16384 * (x[14] \div 128)
  + 32768 * (x[15] \div 128)

\* The state of the routine between statements: the output buffer, tmp, and
\* whether a store fell outside the output buffer (undefined behaviour, after
\* which nothing more is modelled).
\* a one-byte store out[a] = v
Store(st, a, v) ==
  IF a \in DOMAIN st.out THEN [st EXCEPT !.out[a] = v] ELSE [st EXCEPT !.oob = TRUE]

\* line 178-179: for (i = 0; i < 16; ++i) tmp.b[i] = INP(rr + II, cc);
MainLoad(inp, ncols, rr, cc) == [i \in 0..15 |-> inp[INP(ncols, rr + II(i), cc)]]

\* line 180-181: for (i = 8; i--; tmp.x = _mm_slli_epi64(tmp.x, 1))
\*                  *(uint16_t*)&OUT(rr, cc + II) = _mm_movemask_epi8(tmp.x);
RECURSIVE MainStore(_, _, _, _, _)
MainStore(st, nrows, rr, cc, i) ==
  IF st.oob \/ i < 0 THEN st
  ELSE LET m == movemask_epi8(st.tmp)
           a == OUT(nrows, rr, cc + II(i))
           st1 == Store(Store(st, a, m % 256), a + 1, m \div 256)
       IN MainStore([st1 EXCEPT !.tmp = slli_epi64_1(st.tmp)], nrows, rr, cc, i - 1)

\* line 177: for (cc = 0; cc < ncols; cc += 8) { ... }
RECURSIVE MainColumns(_, _, _, _, _, _)
MainColumns(st, inp, nrows, ncols, rr, cc) ==
  IF st.oob \/ cc >= ncols THEN st
  ELSE MainColumns(MainStore([st EXCEPT !.tmp = MainLoad(inp, ncols, rr, cc)],
                             nrows, rr, cc, 7),
                   inp, nrows, ncols, rr, cc + 8)

\* line 176: for (rr = 0; rr <= nrows - 16; rr += 16); yields the state and rr
RECURSIVE MainRows(_, _, _, _, _)
MainRows(st, inp, nrows, ncols, rr) ==
  IF st.oob \/ rr > nrows - 16 THEN [st |-> st, rr |-> rr]
  ELSE MainRows(MainColumns(st, inp, nrows, ncols, rr, 0), inp, nrows, ncols, rr + 16)

\* line 190-192: for (i = 8; i--;) tmp.b[i] = h = *(uint16_t const*)&INP(rr + II, cc),
\*                                 tmp.b[i + 8] = h >> 8;
Tail16Load(inp, ncols, rr, cc) ==
  [k \in 0..15 |-> IF k < 8 THEN inp[INP(ncols, rr + II(k), cc)]
                   ELSE inp[INP(ncols, rr + II(k - 8), cc) + 1]]

\* line 193-195: for (i = 8; i--; tmp.x = _mm_slli_epi64(tmp.x, 1))
\*                  OUT(rr, cc + II) = h = _mm_movemask_epi8(tmp.x),
\*                  OUT(rr, cc + II + 8) = h >> 8;
RECURSIVE Tail16Store(_, _, _, _, _)
Tail16Store(st, nrows, rr, cc, i) ==
  IF st.oob \/ i < 0 THEN st
  ELSE LET h == movemask_epi8(st.tmp)
           st1 == Store(Store(st, OUT(nrows, rr, cc + II(i)), h % 256),
                        OUT(nrows, rr, cc + II(i) + 8), h \div 256)
       IN Tail16Store([st1 EXCEPT !.tmp = slli_epi64_1(st.tmp)], nrows, rr, cc, i - 1)

\* line 189: for (cc = 0; cc <= ncols - 16; cc += 16); yields the state and cc
RECURSIVE Tail16Columns(_, _, _, _, _, _)
Tail16Columns(st, inp, nrows, ncols, rr, cc) ==
  IF st.oob \/ cc > ncols - 16 THEN [st |-> st, cc |-> cc]
  ELSE Tail16Columns(Tail16Store([st EXCEPT !.tmp = Tail16Load(inp, ncols, rr, cc)],
                                 nrows, rr, cc, 7),
                     inp, nrows, ncols, rr, cc + 16)

\* line 201-202: for (i = 8; i--;) tmp.b[i] = INP(rr + II, cc);  (bytes 8..15 keep
\* what they held)
Tail8Load(tmp, inp, ncols, rr, cc) ==
  [k \in 0..15 |-> IF k < 8 THEN inp[INP(ncols, rr + II(k), cc)] ELSE tmp[k]]

\* line 203-204: for (i = 8; i--; tmp.x = _mm_slli_epi64(tmp.x, 1))
\*                  OUT(rr, cc + II) = _mm_movemask_epi8(tmp.x);   (a uint8_t store)
RECURSIVE Tail8Store(_, _, _, _, _)
Tail8Store(st, nrows, rr, cc, i) ==
  IF st.oob \/ i < 0 THEN st
  ELSE Tail8Store([Store(st, OUT(nrows, rr, cc + II(i)), movemask_epi8(st.tmp) % 256)
                     EXCEPT !.tmp = slli_epi64_1(st.tmp)],
                  nrows, rr, cc, i - 1)

\* void BitMatrixTranspose(uint8_t const *inp, int nrows, int ncols, uint8_t *out)
\* out0 is the caller's output buffer, tmp0 what the uninitialised union holds.
BitMatrixTransposeFrom(inp, nrows, ncols, out0, tmp0) ==
  LET main == MainRows([out |-> out0, tmp |-> tmp0, oob |-> FALSE], inp, nrows, ncols, 0)
  IN IF main.rr = nrows THEN main.st
     ELSE LET t16 == Tail16Columns(main.st, inp, nrows, ncols, main.rr, 0)
          IN IF t16.cc = ncols THEN t16.st
             ELSE Tail8Store([t16.st EXCEPT
                                !.tmp = Tail8Load(t16.st.tmp, inp, ncols, main.rr, t16.cc)],
                             nrows, main.rr, t16.cc, 7)

\* the call on a zero-initialised output vector, as every caller in the OTE makes it
BitMatrixTranspose(inp, nrows, ncols) ==
  BitMatrixTransposeFrom(inp, nrows, ncols, Zeros((nrows * ncols) \div 8), Zeros(16)).out

(***************************************************************************)
(* Collaborators of the OTE that are not in the source tree: PRG, Hash,    *)
(* Block::FromSparseBytes, the Naor-Pinkas base OT and the channel.        *)
(***************************************************************************)
\* PRG::Seed is a key block and a counter.  Block `counter` of the stream of
\* `key`, byte b: a fixed keyed byte permutation, so that distinct keys and
\* distinct counters give distinct blocks.
PRGByte(key, counter, b) ==
  (key[(b + counter) % 16] * (2 * (counter % 64) + 3) + 29 * b + 101 * counter
     + 57 * ((counter \div 64) % 4) * (b + 1) + 7) % 256

\* PRG::GenRandomBlocks(seed, n): a vector of n blocks; the seed's counter
\* advances by n
GenRandomBlocks(seed, n) ==
  [k \in 0..(n - 1) |-> [b \in 0..15 |-> PRGByte(seed.key, seed.counter + k, b)]]

\* PRG::GenRandomBits(seed, n): n bytes, each 0 or 1 (the sparse form)
GenRandomBits(seed, n) ==
  [i \in 0..(n - 1) |->
     BitOf(PRGByte(seed.key, seed.counter + (i \div 128), (i \div 8) % 16), i % 8)]

\* PRG::ReSeed(seed, key, counter)
ReSeed(key, counter) == [key |-> key, counter |-> counter]

\* the key PRG::SetSeed(nullptr, 0) draws, for the n-th draw of the model
FreshKey(n) == [b \in 0..15 |-> (83 * n + 41 * b * (n + 1) + (b * b) + 19) % 256]

\* Hash::BlocksToBlock(vec): 16 bytes out of vec.size() blocks; a bijection on
\* one block
BlocksToBlock(vec) ==
  LET n == Size(vec) \div 16
      RECURSIVE Fold(_, _)
      Fold(k, b) == IF k = n THEN 0
                    ELSE vec[16 * k + ((b + k) % 16)] * (2 * k + 1) + Fold(k + 1, b)
  IN [b \in 0..15 |-> (Fold(0, b) + 13 * b + 5) % 256]

\* Block::FromSparseBytes(byte_data, BYTE_LEN, block_data, BLOCK_LEN): one bit per
\* input byte, packed into the dense row layout of a bit matrix.  Element c of the
\* sparse vector is column c of the row, and BitMatrixTranspose addresses column
\* c as bit 7 - c % 8 of byte c / 8 (II = i ^ 7).
FromSparseBytes(byte_data, BYTE_LEN) ==
  [a \in 0..((BYTE_LEN \div 8) - 1) |->
       128 * byte_data[8 * a]     + 64 * byte_data[8 * a + 1] + 32 * byte_data[8 * a + 2]
     + 16 * byte_data[8 * a + 3]  + 8 * byte_data[8 * a + 4]  + 4 * byte_data[8 * a + 5]
     + 2 * byte_data[8 * a + 6]   + byte_data[8 * a + 7]]

\* The base-OT group: Z_q under addition with generator 1, so that g^x is x,
\* P^x is P*x and P*Q is P+Q.
NPOrder == 251

\* H(point, i): the mask block of base OT i
NPMask(point, i) == [b \in 0..15 |-> (point * 7 + i * 31 + b * 17 + 3) % 256]

\* the scalars NPOT samples: y of the base-OT sender, x[i] of its receiver
NPSampleY(n) == 1 + ((57 * n + 11) % (NPOrder - 1))

NPSampleX(n, i) == (13 * n + 5 * i + 2) % NPOrder

\* NPOT::Receive step 2: R[i] = S^{b[i]} * g^{x[i]}
NPPointR(S, sel, n, i) == (sel[i] * S + NPSampleX(n, i)) % NPOrder

\* NPOT::Send step 3: (c0[i], c1[i]) = (k0[i] ^ H(R[i]^y, i), k1[i] ^ H((R[i] S^-1)^y, i))
NPEncrypt0(vec_K0, R, y, n) ==
  [i \in 0..(n - 1) |-> XorBlock(vec_K0[i], NPMask((R[i + 1] * y) % NPOrder, i))]

NPEncrypt1(vec_K1, R, S, y, n) ==
  [i \in 0..(n - 1) |->
     XorBlock(vec_K1[i], NPMask((((R[i + 1] + NPOrder - S) % NPOrder) * y) % NPOrder, i))]

\* NPOT::Receive step 3: K[i] = c_{b[i]}[i] ^ H(S^{x[i]}, i)
NPDecrypt(c0, c1, S, sel, x_n, n) ==
  [i \in 0..(n - 1) |->
     XorBlock(IF sel[i] = 0 THEN c0[i] ELSE c1[i],
              NPMask((S * NPSampleX(x_n, i)) % NPOrder, i))]

\* NetIO: one reliable FIFO byte stream per direction, kept as the sequence of
\* the units (blocks, points) in flight.  A vector of n blocks as units, and back.
ToUnits(vec, n) == [k \in 1..n |-> vec[k - 1]]

FromUnits(units) == [k \in 0..(Len(units) - 1) |-> units[k + 1]]

Take(stream, n) == SubSeq(stream, 1, n)

Drop(stream, n) == SubSeq(stream, n + 1, Len(stream))

\* vec.data() of a vector<block> seen as bytes, and n bytes seen as blocks
Flat(vec) == [a \in 0..(16 * Size(vec) - 1) |-> vec[a \div 16][a % 16]]

Blocks(buf) == [k \in 0..((Size(buf) \div 16) - 1) |-> BlockAt(buf, k)]

(***************************************************************************)
(* State.  The OTE run: the public parameter, the two parties, the channel *)
(* and the record of the channel calls made so far.  bmt, psi, zk and bf   *)
(* are the transpose harness, the PSI run, the NIZK run and the filter.    *)
(***************************************************************************)
VARIABLES pp_BASE_LEN, snd, rcv, io, iolog, bmt, psi, zk, bf

vars == <<pp_BASE_LEN, snd, rcv, io, iolog, bmt, psi, zk, bf>>

OTEvars == <<pp_BASE_LEN, snd, rcv, io, iolog>>

\* const static size_t BASE_LEN and the default of PP::BASE_LEN
BASE_LEN == 128

\* the runs explored are numbered 0..MaxRun; a run fixes the receiver's
\* selection bits, the payloads and what the fresh PRG seeds turn out to be
MaxRun == 1

\* EXTEND_LEN ranges over 128, 256, ... up to MaxExtendBlocks * 128, and over the
\* lengths halfway in between, which are no multiple of 128
MaxExtendBlocks == 1

ExtendLens ==
  {128 * k : k \in 1..MaxExtendBlocks} \cup {128 * k - 64 : k \in 1..MaxExtendBlocks}

\* pp.BASE_LEN is a field that Fetch reads from a file: the default and one
\* value that is no multiple of 128
BaseLens == {BASE_LEN, BASE_LEN \div 2}

\* the receiver's selection bits of run k: a different mix of 0 and 1 per run
SelectionBits(k, n) ==
  [i \in 0..(n - 1) |-> IF (i * i + (i \div 8) + k) % (k + 2) = 0 THEN 1 ELSE 0]

\* the sender's payloads of run k
Payload0(k, n) == [i \in 0..(n - 1) |-> [b \in 0..15 |-> (i + 3 * b + k) % 256]]

Payload1(k, n) == [i \in 0..(n - 1) |-> [b \in 0..15 |-> (255 - ((i + 3 * b + k) % 256))]]

\* CheckParameters: TRUE when it returns, FALSE when it calls exit(EXIT_FAILURE)
CheckParameters_rows_only(ROW_NUM, COLUMN_NUM) == ~(ROW_NUM % 128 # 0)

CheckParameters(ROW_NUM, COLUMN_NUM) ==
  ~(ROW_NUM % 128 # 0 \/ COLUMN_NUM % 128 # 0)

\* the loop `for j < COLUMN_NUM: ReSeed(seed, &vec_seed[j], 0); column =
\* GenRandomBlocks(seed, ROW_NUM/128); M.insert(M.end(), column)`: byte a of M
\* is byte a % 16 of block (a % (ROW_NUM/8)) / 16 of the stream of vec_seed[j],
\* j = a / (ROW_NUM/8)
ExpandColumns(vec_seed, ROW_NUM, COLUMN_NUM) ==
  [a \in 0..(((ROW_NUM \div 128) * COLUMN_NUM * 16) - 1) |->
     PRGByte(vec_seed[a \div (ROW_NUM \div 8)], (a % (ROW_NUM \div 8)) \div 16, a % 16)]

\* P_column = Block::XOR(Block::XOR(T_column, U_column), vec_receiver_selection_block),
\* appended column after column
AdjustMatrix(T, Ucolumns, selection_block, ROW_NUM) ==
  [a \in DOMAIN T |->
     XorByte(XorByte(T[a], Ucolumns[a]), selection_block[a % (ROW_NUM \div 8)])]

\* the second operand of Block::XOR(T_column, U_column): the U_column of the
\* iteration, not the vector U
XOROperand_from_U(U, Ucolumns) == U

XOROperand(U, Ucolumns) == Ucolumns

\* vec_inner_C0[j] = vec_inner_K0[j] ^ vec_T_seed[j] (and C1 with K1, U_seed)
EncryptSeeds(vec_inner_K, vec_seed, COLUMN_NUM) ==
  [j \in 0..(COLUMN_NUM - 1) |-> XorBlock(vec_inner_K[j], vec_seed[j])]

\* vec_Q_seed[j] = (s[j] == 0 ? vec_inner_C0[j] : vec_inner_C1[j]) ^ vec_inner_K[j]
RecoverSeeds_always_C0(vec_inner_C0, vec_inner_C1, vec_inner_K, selection_bit, COLUMN_NUM) ==
  [j \in 0..(COLUMN_NUM - 1) |-> XorBlock(vec_inner_C0[j], vec_inner_K[j])]

RecoverSeeds(vec_inner_C0, vec_inner_C1, vec_inner_K, selection_bit, COLUMN_NUM) ==
  [j \in 0..(COLUMN_NUM - 1) |->
     XorBlock(IF selection_bit[j] = 0 THEN vec_inner_C0[j] ELSE vec_inner_C1[j],
              vec_inner_K[j])]

\* memcpy(row.data(), M_transpose.data() + i*COLUMN_NUM/128, COLUMN_NUM/8):
\* the pointer arithmetic is in blocks
RowOf(M_transpose, COLUMN_NUM, i) ==
  Slice(M_transpose, 16 * ((i * COLUMN_NUM) \div 128), COLUMN_NUM \div 8)

\* the receiver's key: vec_K[i] = Hash::BlocksToBlock(T_row)
ReceiverKeys(T_transpose, ROW_NUM, COLUMN_NUM) ==
  [i \in 0..(ROW_NUM - 1) |-> BlocksToBlock(RowOf(T_transpose, COLUMN_NUM, i))]

\* the sender's row: Q_row = Block::XOR(Q_row, Block::AND(selection_block, P_row))
AdjustedRow_without_adjust(Q_transpose, P_transpose, selection_block, COLUMN_NUM, i) ==
  RowOf(Q_transpose, COLUMN_NUM, i)

AdjustedRow(Q_transpose, P_transpose, selection_block, COLUMN_NUM, i) ==
  BlockXOR(RowOf(Q_transpose, COLUMN_NUM, i),
           BlockAND(selection_block, RowOf(P_transpose, COLUMN_NUM, i)))

\* vec_K0[i] = Hash::BlocksToBlock(Q_row)
SenderKeys0(Q_transpose, P_transpose, selection_block, ROW_NUM, COLUMN_NUM) ==
  [i \in 0..(ROW_NUM - 1) |->
     BlocksToBlock(AdjustedRow(Q_transpose, P_transpose, selection_block, COLUMN_NUM, i))]

\* vec_K1[i] = Hash::BlocksToBlock(Block::XOR(Q_row, selection_block))
SenderKeys1(Q_transpose, P_transpose, selection_block, ROW_NUM, COLUMN_NUM) ==
  [i \in 0..(ROW_NUM - 1) |->
     BlocksToBlock(BlockXOR(
        AdjustedRow(Q_transpose, P_transpose, selection_block, COLUMN_NUM, i),
        selection_block))]

\* vec_outer_C0[i] = vec_m0[i] ^ vec_K0[i] (and C1 with m1, K1)
EncryptPayload(vec_m, vec_K, ROW_NUM) ==
  [i \in 0..(ROW_NUM - 1) |-> XorBlock(vec_m[i], vec_K[i])]

\* vec_result[i] = (r[i] == 0 ? vec_outer_C0[i] : vec_outer_C1[i]) ^ vec_K[i]
DecryptPayload_always_C0(vec_outer_C0, vec_outer_C1, vec_K, selection_bit, ROW_NUM) ==
  [i \in 0..(ROW_NUM - 1) |-> XorBlock(vec_outer_C0[i], vec_K[i])]

DecryptPayload(vec_outer_C0, vec_outer_C1, vec_K, selection_bit, ROW_NUM) ==
  [i \in 0..(ROW_NUM - 1) |->
     XorBlock(IF selection_bit[i] = 0 THEN vec_outer_C0[i] ELSE vec_outer_C1[i],
              vec_K[i])]

\* one channel call in the record: who called, send or receive, which buffer,
\* how many units
Call(who, op, what, n) == [who |-> who, op |-> op, what |-> what, n |-> n]

(***************************************************************************)
(* ALSZ OT extension: the sender (ALSZOTE::Send, or PrepareSend called on  *)
(* its own).  One action per stretch of code that ends in a channel call.  *)
(***************************************************************************)
Unset == <<>>

Others == <<bmt, psi, zk, bf>>

\* Send and PrepareSend up to the call of NPOT::Receive: CheckParameters (twice
\* on the way through Send), the PRG seed, the selection bits
Send_Begin ==
  /\ snd.pc = "start"
  /\ IF CheckParameters(snd.EXTEND_LEN, pp_BASE_LEN)
       THEN snd' = [snd EXCEPT
              !.pc = "NPOT_Receive",
              !.vec_sender_selection_bit =
                 GenRandomBits(ReSeed(snd.fresh, 0), pp_BASE_LEN)]
       ELSE snd' = [snd EXCEPT !.pc = "exit"]
  /\ UNCHANGED <<pp_BASE_LEN, rcv, io, iolog, Others>>

\* NPOT::Receive, steps 1 and 2: receive S, send the points R[i]
NPOT_Receive_S ==
  /\ snd.pc = "NPOT_Receive"
  /\ Len(io.r2s) >= 1
  /\ LET S == io.r2s[1]
         R == [k \in 1..pp_BASE_LEN |->
                 NPPointR(S, snd.vec_sender_selection_bit, snd.run, k - 1)]
     IN /\ snd' = [snd EXCEPT !.pc = "NPOT_Receive_c", !.S = S]
        /\ io' = [r2s |-> Drop(io.r2s, 1), s2r |-> io.s2r \o R]
        /\ iolog' = iolog \o << Call("S", "recv", "S", 1),
                                Call("S", "send", "R", pp_BASE_LEN) >>
  /\ UNCHANGED <<pp_BASE_LEN, rcv, Others>>

\* NPOT::Receive, step 3: receive (c0, c1), return the keys
NPOT_Receive_c ==
  /\ snd.pc = "NPOT_Receive_c"
  /\ Len(io.r2s) >= 2 * pp_BASE_LEN
  /\ LET c0 == FromUnits(Take(io.r2s, pp_BASE_LEN))
         c1 == FromUnits(Take(Drop(io.r2s, pp_BASE_LEN), pp_BASE_LEN))
     IN snd' = [snd EXCEPT
           !.pc = "ReceiveBlocks_C0",
           !.vec_inner_K = NPDecrypt(c0, c1, snd.S, snd.vec_sender_selection_bit,
                                     snd.run, pp_BASE_LEN)]
  /\ io' = [io EXCEPT !.r2s = Drop(io.r2s, 2 * pp_BASE_LEN)]
  /\ iolog' = iolog \o << Call("S", "recv", "c", 2 * pp_BASE_LEN) >>
  /\ UNCHANGED <<pp_BASE_LEN, rcv, Others>>

\* io.ReceiveBlocks(vec_inner_C0.data(), COLUMN_NUM)
PrepareSend_ReceiveC0 ==
  /\ snd.pc = "ReceiveBlocks_C0"
  /\ Len(io.r2s) >= pp_BASE_LEN
  /\ snd' = [snd EXCEPT !.pc = "ReceiveBlocks_C1",
                        !.vec_inner_C0 = FromUnits(Take(io.r2s, pp_BASE_LEN))]
  /\ io' = [io EXCEPT !.r2s = Drop(io.r2s, pp_BASE_LEN)]
  /\ iolog' = iolog \o << Call("S", "recv", "vec_inner_C0", pp_BASE_LEN) >>
  /\ UNCHANGED <<pp_BASE_LEN, rcv, Others>>

\* io.ReceiveBlocks(vec_inner_C1.data(), COLUMN_NUM), then the seeds, Q and its
\* transpose
PrepareSend_ReceiveC1 ==
  /\ snd.pc = "ReceiveBlocks_C1"
  /\ Len(io.r2s) >= pp_BASE_LEN
  /\ LET ROW_NUM == snd.EXTEND_LEN
         COLUMN_NUM == pp_BASE_LEN
         vec_inner_C1 == FromUnits(Take(io.r2s, COLUMN_NUM))
         vec_Q_seed == RecoverSeeds(snd.vec_inner_C0, vec_inner_C1, snd.vec_inner_K,
                                    snd.vec_sender_selection_bit, COLUMN_NUM)
         Q == ExpandColumns(vec_Q_seed, ROW_NUM, COLUMN_NUM)
     IN snd' = [snd EXCEPT !.pc = "ReceiveBlocks_P",
                           !.vec_Q_seed = vec_Q_seed,
                           !.Q_transpose = BitMatrixTranspose(Q, COLUMN_NUM, ROW_NUM)]
  /\ io' = [io EXCEPT !.r2s = Drop(io.r2s, pp_BASE_LEN)]
  /\ iolog' = iolog \o << Call("S", "recv", "vec_inner_C1", pp_BASE_LEN) >>
  /\ UNCHANGED <<pp_BASE_LEN, rcv, Others>>

\* io.ReceiveBlocks(P.data(), ROW_NUM/128 * COLUMN_NUM), then the transpose of P,
\* the dense selection block and the keys: the end of PrepareSend
PrepareSend_ReceiveP ==
  /\ snd.pc = "ReceiveBlocks_P"
  /\ LET ROW_NUM == snd.EXTEND_LEN
         COLUMN_NUM == pp_BASE_LEN
         n == (ROW_NUM \div 128) * COLUMN_NUM
     IN /\ Len(io.r2s) >= n
        /\ \E P_transpose \in
                {BitMatrixTranspose(Flat(FromUnits(Take(io.r2s, n))), COLUMN_NUM, ROW_NUM)},
              vec_sender_selection_block \in
                {FromSparseBytes(snd.vec_sender_selection_bit, COLUMN_NUM)} :
              snd' = [snd EXCEPT
                 !.pc = IF snd.entry = "Send" THEN "SendBlocks_C0" ELSE "done",
                 !.vec_sender_selection_block = vec_sender_selection_block,
                 !.Q_row = [i \in 0..(ROW_NUM - 1) |->
                              AdjustedRow(snd.Q_transpose, P_transpose,
                                          vec_sender_selection_block, COLUMN_NUM, i)],
                 !.vec_K0 = SenderKeys0(snd.Q_transpose, P_transpose,
                               vec_sender_selection_block, ROW_NUM, COLUMN_NUM),
                 !.vec_K1 = SenderKeys1(snd.Q_transpose, P_transpose,
                               vec_sender_selection_block, ROW_NUM, COLUMN_NUM)]
        /\ io' = [io EXCEPT !.r2s = Drop(io.r2s, n)]
        /\ iolog' = iolog \o << Call("S", "recv", "P", n) >>
  /\ UNCHANGED <<pp_BASE_LEN, rcv, Others>>

\* Send: the payload ciphertexts, io.SendBlocks(vec_outer_C0.data(), ROW_NUM)
Send_SendC0 ==
  /\ snd.pc = "SendBlocks_C0"
  /\ LET ROW_NUM == snd.EXTEND_LEN
         vec_outer_C0 == EncryptPayload(snd.vec_m0, snd.vec_K0, ROW_NUM)
     IN /\ io' = [io EXCEPT !.s2r = io.s2r \o ToUnits(vec_outer_C0, ROW_NUM)]
        /\ iolog' = iolog \o << Call("S", "send", "vec_outer_C0", ROW_NUM) >>
  /\ snd' = [snd EXCEPT !.pc = "SendBlocks_C1"]
  /\ UNCHANGED <<pp_BASE_LEN, rcv, Others>>

\* io.SendBlocks(vec_outer_C1.data(), ROW_NUM): the end of Send
Send_SendC1 ==
  /\ snd.pc = "SendBlocks_C1"
  /\ LET ROW_NUM == snd.EXTEND_LEN
         vec_outer_C1 == EncryptPayload(snd.vec_m1, snd.vec_K1, ROW_NUM)
     IN /\ io' = [io EXCEPT !.s2r = io.s2r \o ToUnits(vec_outer_C1, ROW_NUM)]
        /\ iolog' = iolog \o << Call("S", "send", "vec_outer_C1", ROW_NUM) >>
  /\ snd' = [snd EXCEPT !.pc = "done"]
  /\ UNCHANGED <<pp_BASE_LEN, rcv, Others>>

(***************************************************************************)
(* ALSZ OT extension: the receiver (ALSZOTE::Receive, or PrepareReceive    *)
(* called on its own)                                                      *)
(***************************************************************************)
\* Receive and PrepareReceive up to the call of NPOT::Send: CheckParameters, the
\* seeds, the matrices T and P, the base-OT key pairs.  After the column loop
\* the PRG seed is the one of vec_U_seed[COLUMN_NUM-1], advanced by ROW_NUM/128.
Receive_Begin ==
  /\ rcv.pc = "start"
  /\ IF CheckParameters(rcv.EXTEND_LEN, pp_BASE_LEN)
       THEN LET ROW_NUM == rcv.EXTEND_LEN
                COLUMN_NUM == pp_BASE_LEN
                vec_T_seed == GenRandomBlocks(ReSeed(rcv.fresh, 0), COLUMN_NUM)
                vec_U_seed == GenRandomBlocks(ReSeed(rcv.fresh, COLUMN_NUM), COLUMN_NUM)
                selection_block ==
                   FromSparseBytes(rcv.vec_receiver_selection_bit, ROW_NUM)
                T == ExpandColumns(vec_T_seed, ROW_NUM, COLUMN_NUM)
                Ucolumns == ExpandColumns(vec_U_seed, ROW_NUM, COLUMN_NUM)
                U == T
                last == ReSeed(vec_U_seed[COLUMN_NUM - 1], ROW_NUM \div 128)
            IN rcv' = [rcv EXCEPT
                  !.pc = "NPOT_Send",
                  !.vec_T_seed = vec_T_seed,
                  !.vec_U_seed = vec_U_seed,
                  !.T = T,
                  !.U = U,
                  !.P = AdjustMatrix(T, XOROperand(U, Ucolumns), selection_block,
                                     ROW_NUM),
                  !.vec_inner_K0 = GenRandomBlocks(last, COLUMN_NUM),
                  !.vec_inner_K1 =
                     GenRandomBlocks(ReSeed(last.key, last.counter + COLUMN_NUM),
                                     COLUMN_NUM),
                  !.seed = ReSeed(last.key, last.counter + 2 * COLUMN_NUM)]
       ELSE rcv' = [rcv EXCEPT !.pc = "exit"]
  /\ UNCHANGED <<pp_BASE_LEN, snd, io, iolog, Others>>

\* NPOT::Send, step 1: publish S = g^y
NPOT_Send_S ==
  /\ rcv.pc = "NPOT_Send"
  /\ rcv' = [rcv EXCEPT !.pc = "NPOT_Send_R"]
  /\ io' = [io EXCEPT !.r2s = io.r2s \o << rcv.y >>]
  /\ iolog' = iolog \o << Call("R", "send", "S", 1) >>
  /\ UNCHANGED <<pp_BASE_LEN, snd, Others>>

\* NPOT::Send, steps 2 and 3: receive the points R[i], send (c0, c1)
NPOT_Send_R ==
  /\ rcv.pc = "NPOT_Send_R"
  /\ Len(io.s2r) >= pp_BASE_LEN
  /\ LET n == pp_BASE_LEN
         R == Take(io.s2r, n)
         c0 == NPEncrypt0(rcv.vec_inner_K0, R, rcv.y, n)
         c1 == NPEncrypt1(rcv.vec_inner_K1, R, rcv.y, rcv.y, n)
     IN /\ io' = [r2s |-> (io.r2s \o ToUnits(c0, n)) \o ToUnits(c1, n),
                  s2r |-> Drop(io.s2r, n)]
        /\ iolog' = iolog \o << Call("R", "recv", "R", n),
                                Call("R", "send", "c", 2 * n) >>
  /\ rcv' = [rcv EXCEPT !.pc = "SendBlocks_C0"]
  /\ UNCHANGED <<pp_BASE_LEN, snd, Others>>

\* io.SendBlocks(vec_inner_C0.data(), COLUMN_NUM)
PrepareReceive_SendC0 ==
  /\ rcv.pc = "SendBlocks_C0"
  /\ LET COLUMN_NUM == pp_BASE_LEN
         vec_inner_C0 == EncryptSeeds(rcv.vec_inner_K0, rcv.vec_T_seed, COLUMN_NUM)
     IN /\ io' = [io EXCEPT !.r2s = io.r2s \o ToUnits(vec_inner_C0, COLUMN_NUM)]
        /\ iolog' = iolog \o << Call("R", "send", "vec_inner_C0", COLUMN_NUM) >>
  /\ rcv' = [rcv EXCEPT !.pc = "SendBlocks_C1"]
  /\ UNCHANGED <<pp_BASE_LEN, snd, Others>>

\* io.SendBlocks(vec_inner_C1.data(), COLUMN_NUM)
PrepareReceive_SendC1 ==
  /\ rcv.pc = "SendBlocks_C1"
  /\ LET COLUMN_NUM == pp_BASE_LEN
         vec_inner_C1 == EncryptSeeds(rcv.vec_inner_K1, rcv.vec_U_seed, COLUMN_NUM)
     IN /\ io' = [io EXCEPT !.r2s = io.r2s \o ToUnits(vec_inner_C1, COLUMN_NUM)]
        /\ iolog' = iolog \o << Call("R", "send", "vec_inner_C1", COLUMN_NUM) >>
  /\ rcv' = [rcv EXCEPT !.pc = "SendBlocks_P"]
  /\ UNCHANGED <<pp_BASE_LEN, snd, Others>>

\* the length of io.SendBlocks(P.data(), ROW_NUM/128*COLUMN_NUM)
PBlocks_forgets_columns(ROW_NUM, COLUMN_NUM) == ROW_NUM \div 128

PBlocks(ROW_NUM, COLUMN_NUM) == (ROW_NUM \div 128) * COLUMN_NUM

\* io.SendBlocks(P.data(), ROW_NUM/128*COLUMN_NUM)
PrepareReceive_SendP ==
  /\ rcv.pc = "SendBlocks_P"
  /\ LET n == PBlocks(rcv.EXTEND_LEN, pp_BASE_LEN)
     IN /\ io' = [io EXCEPT !.r2s = io.r2s \o ToUnits(Blocks(rcv.P), n)]
        /\ iolog' = iolog \o << Call("R", "send", "P", n) >>
  /\ rcv' = [rcv EXCEPT !.pc = "Transpose_T"]
  /\ UNCHANGED <<pp_BASE_LEN, snd, Others>>

\* the transpose of T and the keys: the end of PrepareReceive
PrepareReceive_Keys ==
  /\ rcv.pc = "Transpose_T"
  /\ LET ROW_NUM == rcv.EXTEND_LEN
         COLUMN_NUM == pp_BASE_LEN
     IN \E T_transpose \in {BitMatrixTranspose(rcv.T, COLUMN_NUM, ROW_NUM)} :
        rcv' = [rcv EXCEPT
           !.pc = IF rcv.entry = "Receive" THEN "ReceiveBlocks_C0" ELSE "done",
           !.T_transpose = T_transpose,
           !.vec_K = ReceiverKeys(T_transpose, ROW_NUM, COLUMN_NUM)]
  /\ UNCHANGED <<pp_BASE_LEN, snd, io, iolog, Others>>

\* Receive: io.ReceiveBlocks(vec_outer_C0.data(), ROW_NUM)
Receive_ReceiveC0 ==
  /\ rcv.pc = "ReceiveBlocks_C0"
  /\ Len(io.s2r) >= rcv.EXTEND_LEN
  /\ rcv' = [rcv EXCEPT !.pc = "ReceiveBlocks_C1",
                        !.vec_outer_C0 = FromUnits(Take(io.s2r, rcv.EXTEND_LEN))]
  /\ io' = [io EXCEPT !.s2r = Drop(io.s2r, rcv.EXTEND_LEN)]
  /\ iolog' = iolog \o << Call("R", "recv", "vec_outer_C0", rcv.EXTEND_LEN) >>
  /\ UNCHANGED <<pp_BASE_LEN, snd, Others>>

\* io.ReceiveBlocks(vec_outer_C1.data(), ROW_NUM) and the result: the end of
\* Receive
Receive_ReceiveC1 ==
  /\ rcv.pc = "ReceiveBlocks_C1"
  /\ Len(io.s2r) >= rcv.EXTEND_LEN
  /\ LET ROW_NUM == rcv.EXTEND_LEN
         vec_outer_C1 == FromUnits(Take(io.s2r, ROW_NUM))
     IN rcv' = [rcv EXCEPT
           !.pc = "done",
           !.vec_result = DecryptPayload(rcv.vec_outer_C0, vec_outer_C1, rcv.vec_K,
                                         rcv.vec_receiver_selection_bit, ROW_NUM)]
  /\ io' = [io EXCEPT !.s2r = Drop(io.s2r, rcv.EXTEND_LEN)]
  /\ iolog' = iolog \o << Call("R", "recv", "vec_outer_C1", rcv.EXTEND_LEN) >>
  /\ UNCHANGED <<pp_BASE_LEN, snd, Others>>

(***************************************************************************)
(* The OTE runs                                                            *)
(***************************************************************************)
Idle == [pc |-> "idle"]

InitOTE ==
  \E k \in 0..MaxRun, ext \in ExtendLens, base \in BaseLens, whole \in BOOLEAN :
     /\ pp_BASE_LEN = base
     /\ snd = [pc |-> "start", entry |-> IF whole THEN "Send" ELSE "PrepareSend",
               run |-> k, EXTEND_LEN |-> ext, fresh |-> FreshKey(2 * k),
               vec_m0 |-> Payload0(k, ext), vec_m1 |-> Payload1(k, ext),
               vec_sender_selection_bit |-> Unset, S |-> 0, vec_inner_K |-> Unset,
               vec_inner_C0 |-> Unset, vec_Q_seed |-> Unset, Q_transpose |-> Unset,
               vec_sender_selection_block |-> Unset, Q_row |-> Unset,
               vec_K0 |-> Unset, vec_K1 |-> Unset]
     /\ rcv = [pc |-> "start", entry |-> IF whole THEN "Receive" ELSE "PrepareReceive",
               run |-> k, EXTEND_LEN |-> ext, fresh |-> FreshKey(2 * k + 1),
               y |-> NPSampleY(k),
               vec_receiver_selection_bit |-> SelectionBits(k, ext),
               vec_T_seed |-> Unset, vec_U_seed |-> Unset, T |-> Unset, P |-> Unset,
               U |-> Unset, seed |-> Unset,
               vec_inner_K0 |-> Unset, vec_inner_K1 |-> Unset,
               T_transpose |-> Unset, vec_K |-> Unset,
               vec_outer_C0 |-> Unset, vec_result |-> Unset]
     /\ io = [r2s |-> <<>>, s2r |-> <<>>]
     /\ iolog = <<>>
     /\ bmt = Idle /\ psi = Idle /\ zk = Idle /\ bf = Idle

NextOTE ==
  \/ Send_Begin
  \/ NPOT_Receive_S
  \/ NPOT_Receive_c
  \/ PrepareSend_ReceiveC0
  \/ PrepareSend_ReceiveC1
  \/ PrepareSend_ReceiveP
  \/ Send_SendC0
  \/ Send_SendC1
  \/ Receive_Begin
  \/ NPOT_Send_S
  \/ NPOT_Send_R
  \/ PrepareReceive_SendC0
  \/ PrepareReceive_SendC1
  \/ PrepareReceive_SendP
  \/ PrepareReceive_Keys
  \/ Receive_ReceiveC0
  \/ Receive_ReceiveC1

SpecOTE == InitOTE /\ [][NextOTE]_vars

(***************************************************************************)
(* Properties of the OTE runs                                              *)
(***************************************************************************)
ValidParameters == snd.EXTEND_LEN % 128 = 0 /\ pp_BASE_LEN % 128 = 0

Rows == 0..(rcv.EXTEND_LEN - 1)

PrepareSendDone == snd.pc \in {"SendBlocks_C0", "SendBlocks_C1", "done"}

PrepareReceiveDone == rcv.pc \in {"ReceiveBlocks_C0", "ReceiveBlocks_C1", "done"}

ReceiveReturned == rcv.entry = "Receive" /\ rcv.pc = "done"

MixedSelection ==
  /\ \E i \in Rows : rcv.vec_receiver_selection_bit[i] = 0
  /\ \E i \in Rows : rcv.vec_receiver_selection_bit[i] = 1

Columns == 0..(pp_BASE_LEN - 1)

\* the base OT has delivered K[j] = K_{s[j]}[j]
BaseOTDelivered ==
  /\ snd.vec_inner_K # Unset /\ rcv.vec_inner_K0 # Unset
  /\ \A j \in Columns :
       snd.vec_inner_K[j] = IF snd.vec_sender_selection_bit[j] = 0
                              THEN rcv.vec_inner_K0[j] ELSE rcv.vec_inner_K1[j]

\* r[i] . s*: the sender's selection block where r[i] = 1, zero where r[i] = 0
SelectedBlock(i) ==
  [a \in DOMAIN snd.vec_sender_selection_block |->
     rcv.vec_receiver_selection_bit[i] * snd.vec_sender_selection_block[a]]

UColumns == ExpandColumns(rcv.vec_U_seed, rcv.EXTEND_LEN, pp_BASE_LEN)

\* the two ways of filling U: with T_column, as the code does, or with U_column
Fillings == {rcv.T, UColumns}

\* the matrix P that PrepareReceive computes when the vector U holds `U'
PWhenUIs(U) ==
  AdjustMatrix(rcv.T, XOROperand(U, UColumns),
               FromSparseBytes(rcv.vec_receiver_selection_bit, rcv.EXTEND_LEN),
               rcv.EXTEND_LEN)

\* what a step of the receiver appends to the channel towards the sender
Appends(units) == io'.r2s = io.r2s \o units

\* C22: the vector U of PrepareReceive is never read: the c0, c1 and P the
\* receiver puts on the wire and the keys K[i] it outputs are the same whether
\* U is filled with T_column or with U_column, P being computed from the
\* T_column and the U_column of each iteration.
C22_UNeverRead ==
  [][  /\ PrepareReceive_SendC0 =>
            Appends(ToUnits(EncryptSeeds(rcv.vec_inner_K0, rcv.vec_T_seed, pp_BASE_LEN),
                            pp_BASE_LEN))
       /\ PrepareReceive_SendC1 =>
            Appends(ToUnits(EncryptSeeds(rcv.vec_inner_K1, rcv.vec_U_seed, pp_BASE_LEN),
                            pp_BASE_LEN))
       /\ PrepareReceive_SendP =>
            \A U \in Fillings :
               Appends(ToUnits(Blocks(PWhenUIs(U)),
                               PBlocks(rcv.EXTEND_LEN, pp_BASE_LEN)))
       /\ PrepareReceive_Keys =>
            rcv'.vec_K = ReceiverKeys(rcv'.T_transpose, rcv.EXTEND_LEN, pp_BASE_LEN)]_vars

\* PrepareReceive has returned its keys after sending a P that differs from
\* the one a read of U would give, with U holding T_column and not U_column
C22_Witness ==
  /\ PrepareReceiveDone
  /\ rcv.U = rcv.T /\ rcv.U # UColumns
  /\ rcv.P = PWhenUIs(rcv.T) /\ rcv.P = PWhenUIs(UColumns)
  /\ rcv.P # AdjustMatrix(rcv.T, rcv.U,
                          FromSparseBytes(rcv.vec_receiver_selection_bit, rcv.EXTEND_LEN),
                          rcv.EXTEND_LEN)
  /\ MixedSelection

\* C23: the PRG state from which vec_inner_K0 and vec_inner_K1 are drawn is
\* keyed by no t_seed[j] and no u_seed[j], so that a sender who has learnt
\* u_seed[C-1] (s[C-1] = 1) cannot recompute the base-OT message keys from it.
C23_KeysIndependentOfSeeds ==
  rcv.vec_inner_K0 # Unset =>
    /\ \A j \in Columns :
         rcv.seed.key # rcv.vec_T_seed[j] /\ rcv.seed.key # rcv.vec_U_seed[j]
    /\ ( /\ snd.vec_Q_seed # Unset
         /\ snd.vec_sender_selection_bit[pp_BASE_LEN - 1] = 1 ) =>
         GenRandomBlocks(ReSeed(snd.vec_Q_seed[pp_BASE_LEN - 1], rcv.EXTEND_LEN \div 128),
                         pp_BASE_LEN) # rcv.vec_inner_K0

\* the channel calls of the extension proper, those of the base OT left out
BaseOT(c) == c.what \in {"S", "R", "c"}

ExtCalls == SelectSeq(iolog, LAMBDA c : ~BaseOT(c))

CallsOf(who, op) == SelectSeq(ExtCalls, LAMBDA c : c.who = who /\ c.op = op)

Lengths(calls) == [k \in 1..Len(calls) |-> calls[k].n]

IsPrefix(s, t) == Len(s) <= Len(t) /\ \A k \in 1..Len(s) : s[k] = t[k]

\* the schedule of section 6.2 after the base OT, R = EXTEND_LEN, C = BASE_LEN
Schedule ==
  LET R == rcv.EXTEND_LEN
      C == pp_BASE_LEN
  IN << Call("R", "send", "vec_inner_C0", C),
        Call("R", "send", "vec_inner_C1", C),
        Call("R", "send", "P", (R * C) \div 128),
        Call("S", "send", "vec_outer_C0", R),
        Call("S", "send", "vec_outer_C1", R) >>

\* C8: after the base OT the sends are, in order, C blocks c0, C blocks c1 and
\* R*C/128 blocks P from the receiver, then R blocks C0 and R blocks C1 from the
\* sender; every receive takes what the peer's matching send put on the wire;
\* the sender sends no payload before it has received the whole of P.
C8_MessageOrder ==
  /\ IsPrefix(SelectSeq(ExtCalls, LAMBDA c : c.op = "send"), Schedule)
  /\ IsPrefix(Lengths(CallsOf("S", "recv")), Lengths(CallsOf("R", "send")))
  /\ IsPrefix(Lengths(CallsOf("R", "recv")), Lengths(CallsOf("S", "send")))
  /\ \A k \in 1..Len(iolog) :
       ~BaseOT(iolog[k]) =>
          \A l \in k..Len(iolog) : iolog[l].who = iolog[k].who => ~BaseOT(iolog[l])
  /\ \A k \in 1..Len(iolog) :
       (iolog[k].who = "S" /\ iolog[k].op = "send" /\ ~BaseOT(iolog[k])) =>
         \E l \in 1..(k - 1) :
           iolog[l] = Call("S", "recv", "P", (rcv.EXTEND_LEN * pp_BASE_LEN) \div 128)
  /\ (ReceiveReturned /\ snd.pc = "done") =>
       /\ SelectSeq(ExtCalls, LAMBDA c : c.op = "send") = Schedule
       /\ Len(CallsOf("S", "recv")) = 3 /\ Len(CallsOf("R", "recv")) = 2

C8_Witness ==
  /\ ReceiveReturned /\ snd.pc = "done"
  /\ Len(ExtCalls) = 10
  /\ io.r2s = <<>> /\ io.s2r = <<>>

\* C10: with EXTEND_LEN or pp.BASE_LEN no multiple of 128 neither party makes a
\* channel call or a base-OT call or produces a key or an output: each goes
\* from its entry straight to exit.
C10_InvalidParametersExit ==
  ~ValidParameters =>
    /\ iolog = <<>> /\ io.r2s = <<>> /\ io.s2r = <<>>
    /\ snd.pc \in {"start", "exit"} /\ rcv.pc \in {"start", "exit"}
    /\ snd.vec_sender_selection_bit = Unset /\ snd.vec_inner_K = Unset
    /\ snd.vec_K0 = Unset /\ snd.vec_K1 = Unset
    /\ rcv.vec_T_seed = Unset /\ rcv.T = Unset /\ rcv.P = Unset
    /\ rcv.vec_inner_K0 = Unset /\ rcv.vec_K = Unset /\ rcv.vec_result = Unset

C10_Witness ==
  /\ ~ValidParameters
  /\ snd.pc = "exit" /\ rcv.pc = "exit"
  /\ snd.EXTEND_LEN % 128 = 0
  /\ pp_BASE_LEN % 128 # 0

(***************************************************************************)
(* BitMatrixTranspose called twice: on M with (nrows, ncols), then on the  *)
(* result with (ncols, nrows)                                              *)
(***************************************************************************)
\* nrows and ncols range over 8, 16, ..., 8 * MaxDim8
MaxDim8 == 4

\* the matrices of a given size are numbered 0..MaxMatrix
MaxMatrix == 7

Dims == {8 * k : k \in 1..MaxDim8}

\* matrix k of n bytes: a single bit in the last byte, all ones, then mixed bytes
MatrixOf(k, n) ==
  [a \in 0..(n - 1) |->
     IF k = 0 THEN (IF a = n - 1 THEN 1 ELSE 0)
     ELSE IF k = 1 THEN 255
     ELSE (a * 37 * (2 * k + 1) + 11 * k + (a \div 7) * 5 + k * k) % 256]

\* the nrows x ncols matrix with ones exactly where i = j, a one being bit
\* 7 - j % 8 of its byte (msb) or bit j % 8 (not msb)
Diagonal(nrows, ncols, msb) ==
  [a \in 0..(((nrows * ncols) \div 8) - 1) |->
     LET i == a \div (ncols \div 8)
         j0 == 8 * (a % (ncols \div 8))
     IN IF i >= j0 /\ i < j0 + 8
          THEN Pow2[IF msb THEN 7 - (i - j0) ELSE i - j0]
          ELSE 0]

\* what a buffer nobody has written yet may hold
Fill(n, v) == [a \in 0..(n - 1) |-> v]

\* no OTE run in this process
NoOTE ==
  /\ pp_BASE_LEN = BASE_LEN /\ snd = Idle /\ rcv = Idle
  /\ io = Idle /\ iolog = <<>>

InitBMT ==
  \E nrows \in Dims, ncols \in Dims, junk \in {0, 255} :
    \E M \in {MatrixOf(k, (nrows * ncols) \div 8) : k \in 0..MaxMatrix}
              \cup {Diagonal(nrows, ncols, msb) : msb \in BOOLEAN} :
     /\ bmt = [pc |-> "start", nrows |-> nrows, ncols |-> ncols, junk |-> junk,
               M |-> M,
               out |-> Unset, back |-> Unset, oob |-> FALSE]
     /\ NoOTE /\ psi = Idle /\ zk = Idle /\ bf = Idle

\* BitMatrixTranspose(M, nrows, ncols, out)
BMT_Transpose ==
  /\ bmt.pc = "start"
  /\ \E st \in {BitMatrixTransposeFrom(bmt.M, bmt.nrows, bmt.ncols,
                                       Fill((bmt.nrows * bmt.ncols) \div 8, bmt.junk),
                                       Fill(16, bmt.junk))} :
        bmt' = [bmt EXCEPT !.pc = "once", !.out = st.out, !.oob = st.oob]
  /\ UNCHANGED <<OTEvars, psi, zk, bf>>

\* BitMatrixTranspose(out, ncols, nrows, back)
BMT_TransposeBack ==
  /\ bmt.pc = "once"
  /\ \E st \in {BitMatrixTransposeFrom(bmt.out, bmt.ncols, bmt.nrows,
                                       Fill((bmt.nrows * bmt.ncols) \div 8, bmt.junk),
                                       Fill(16, bmt.junk))} :
        bmt' = [bmt EXCEPT !.pc = "twice", !.back = st.out, !.oob = bmt.oob \/ st.oob]
  /\ UNCHANGED <<OTEvars, psi, zk, bf>>

NextBMT == BMT_Transpose \/ BMT_TransposeBack

SpecBMT == InitBMT /\ [][NextBMT]_vars

\* C6: for nrows and ncols positive multiples of 8, transposing M with (nrows,
\* ncols) and the result with (ncols, nrows) gives M back, byte for byte, and no
\* store leaves the output buffer.
C6_TransposeInvolution ==
  /\ ~bmt.oob
  /\ bmt.pc = "twice" => bmt.back = bmt.M

C6_Witness ==
  /\ bmt.pc = "twice"
  /\ bmt.nrows % 16 = 8 /\ bmt.ncols % 16 = 8 /\ bmt.nrows # bmt.ncols
  /\ bmt.back = bmt.M
  /\ bmt.out # bmt.M
  /\ \E a \in DOMAIN bmt.M : bmt.M[a] \notin {0, 255}

\* bit (r, c) of a row-major matrix of W columns, the columns of a byte
\* counted from its least significant bit, and from its most significant bit
BitLSBFirst(buf, W, r, c) == BitOf(buf[((r * W) \div 8) + (c \div 8)], c % 8)

BitMSBFirst(buf, W, r, c) == BitOf(buf[((r * W) \div 8) + (c \div 8)], 7 - (c % 8))

Transposed == bmt.pc \in {"once", "twice"}

\* ones exactly on i = j, columns counted from the least significant bit
DiagonalLSBFirst(buf, H, W) ==
  \A r \in 0..(H - 1), c \in 0..(W - 1) :
     BitLSBFirst(buf, W, r, c) = IF r = c THEN 1 ELSE 0

\* C20 as stated: output bit (j, i) is input bit (i, j), bit (r, c) being bit
\* c mod 8, counted from the least significant bit, of byte r*W/8 + c/8; in
\* particular the matrix with ones exactly on i = j transposes to the matrix
\* with ones exactly on i = j.
C20_TransposeLSBFirst ==
  Transposed =>
    /\ \A i \in 0..(bmt.nrows - 1), j \in 0..(bmt.ncols - 1) :
         BitLSBFirst(bmt.out, bmt.nrows, j, i) = BitLSBFirst(bmt.M, bmt.ncols, i, j)
    /\ DiagonalLSBFirst(bmt.M, bmt.nrows, bmt.ncols)
         => DiagonalLSBFirst(bmt.out, bmt.ncols, bmt.nrows)

\* C20, amended: for nrows and ncols multiples of 8, output bit (j, i) is
\* input bit (i, j), bit (r, c) being bit 7 - c mod 8, counted from the least
\* significant bit, of byte r*W/8 + c/8 (the columns of a byte run from its
\* most significant bit); the matrix with ones exactly on i = j transposes to
\* the matrix with ones exactly on i = j, in this and in the stated bit order.
C20_TransposeMSBFirst ==
  Transposed =>
    /\ \A i \in 0..(bmt.nrows - 1), j \in 0..(bmt.ncols - 1) :
         BitMSBFirst(bmt.out, bmt.nrows, j, i) = BitMSBFirst(bmt.M, bmt.ncols, i, j)
    /\ DiagonalLSBFirst(bmt.M, bmt.nrows, bmt.ncols)
         => DiagonalLSBFirst(bmt.out, bmt.ncols, bmt.nrows)

\* a transposed matrix that is not square, has mixed bytes, and a one at
\* (i, j) whose mirror (j, i) holds a zero
C20_Witness ==
  /\ bmt.pc = "once" /\ bmt.nrows # bmt.ncols /\ bmt.nrows % 16 = 8
  /\ \E a \in DOMAIN bmt.M : bmt.M[a] \notin {0, 255}
  /\ \E i \in 0..(bmt.nrows - 1), j \in 0..(bmt.nrows - 1) :
       /\ j < bmt.ncols /\ i < bmt.ncols
       /\ BitMSBFirst(bmt.M, bmt.ncols, i, j) = 1
       /\ BitMSBFirst(bmt.M, bmt.ncols, j, i) = 0
       /\ BitMSBFirst(bmt.out, bmt.nrows, j, i) = 1

(***************************************************************************)
(* cwPRF PSI (mpc/psi/cwprf_psi.hpp).  Not in the source tree: the curve   *)
(* (x25519_scalar_mulx), Hash::BlockToBytes, the PRG and its fixed_seed.   *)
(* The curve is modelled by the group Z_q, a point by the 32 bytes of its  *)
(* little-endian encoding.                                                 *)
(***************************************************************************)
PSIOrder == 32749

\* EC25519Point::px of the group element v
PointBytes(v) ==
  [b \in 0..31 |-> IF b = 0 THEN v % 256 ELSE IF b = 1 THEN (v \div 256) % 256 ELSE 0]

\* the group element px encodes
PointValue(px) == px[0] + 256 * px[1]

\* the scalar a 32-byte key stands for
KeyScalar(k) == 1 + ((k[0] + 256 * k[1]) % (PSIOrder - 1))

\* x25519_scalar_mulx(out, k, in): out = in^k
x25519_scalar_mulx(k, px) == PointBytes((KeyScalar(k) * PointValue(px)) % PSIOrder)

\* Hash::BlockToBytes(element, px, 32): injective on the elements of the model
BlockToBytes(element) == PointBytes(1 + ((107 * element + 16) % (PSIOrder - 1)))

\* the constant block fixed_seed of prg.hpp
fixed_seed == [b \in 0..15 |-> (17 * b + 1) % 256]

\* GenRandomBytes(seed, k, 32)
GenRandomBytes(seed, n) ==
  [b \in 0..(n - 1) |-> PRGByte(seed.key, seed.counter + (b \div 16), b % 16)]

\* cwPRFPSI::Setup
Setup_rounding_down(computational_security_parameter, statistical_security_parameter, LOG_SENDER_ITEM_NUM, LOG_RECEIVER_ITEM_NUM) ==
  [statistical_security_parameter |-> statistical_security_parameter,
   computational_security_parameter |-> computational_security_parameter,
   LOG_SENDER_ITEM_NUM |-> LOG_SENDER_ITEM_NUM,
   SENDER_ITEM_NUM |-> Pow2[LOG_SENDER_ITEM_NUM],
   LOG_RECEIVER_ITEM_NUM |-> LOG_RECEIVER_ITEM_NUM,
   RECEIVER_ITEM_NUM |-> Pow2[LOG_RECEIVER_ITEM_NUM],
   TRUNCATE_LEN |-> (statistical_security_parameter + LOG_SENDER_ITEM_NUM
                       + LOG_RECEIVER_ITEM_NUM) \div 8]

Setup(computational_security_parameter, statistical_security_parameter, LOG_SENDER_ITEM_NUM, LOG_RECEIVER_ITEM_NUM) ==
  [statistical_security_parameter |-> statistical_security_parameter,
   computational_security_parameter |-> computational_security_parameter,
   LOG_SENDER_ITEM_NUM |-> LOG_SENDER_ITEM_NUM,
   SENDER_ITEM_NUM |-> Pow2[LOG_SENDER_ITEM_NUM],
   LOG_RECEIVER_ITEM_NUM |-> LOG_RECEIVER_ITEM_NUM,
   RECEIVER_ITEM_NUM |-> Pow2[LOG_RECEIVER_ITEM_NUM],
   TRUNCATE_LEN |-> (statistical_security_parameter + LOG_SENDER_ITEM_NUM
                       + LOG_RECEIVER_ITEM_NUM + 7) \div 8]

\* std::string(&px[0], &px[0] + TRUNCATE_LEN)
Truncate_last_bytes(px, TRUNCATE_LEN) == [b \in 1..TRUNCATE_LEN |-> px[32 - b]]

Truncate(px, TRUNCATE_LEN) == [b \in 1..TRUNCATE_LEN |-> px[b - 1]]

\* vec_Fk_Z[i].px = x25519_scalar_mulx(k, BlockToBytes(vec_Z[i])), i < n
HashAndMul(k, vec_Z, n) ==
  [i \in 1..n |-> x25519_scalar_mulx(k, BlockToBytes(vec_Z[i]))]

\* vec_out[i].px = x25519_scalar_mulx(k, vec_in[i].px), i < n
MulAll(k, vec_in, n) == [i \in 1..n |-> x25519_scalar_mulx(k, vec_in[i])]

\* the strings of the first TRUNCATE_LEN bytes of n points
TruncateAll(vec_in, n, TRUNCATE_LEN) ==
  [i \in 1..n |-> Truncate(vec_in[i], TRUNCATE_LEN)]

\* the loop over vec_TRUNCATE_Fk1k2_X: vec_X[i] is appended when string i is in S
RECURSIVE Intersection_without_repeats(_, _, _, _)
Intersection_without_repeats(vec_X, vec_T, S, n) ==
  IF n = 0 THEN <<>>
  ELSE LET rest == Intersection_without_repeats(vec_X, vec_T, S, n - 1)
       IN IF vec_T[n] \in S /\ \A j \in 1..Len(rest) : rest[j] # vec_X[n]
            THEN Append(rest, vec_X[n]) ELSE rest

RECURSIVE Intersection(_, _, _, _)
Intersection(vec_X, vec_T, S, n) ==
  IF n = 0 THEN <<>>
  ELSE LET rest == Intersection(vec_X, vec_T, S, n - 1)
       IN IF vec_T[n] \in S THEN Append(rest, vec_X[n]) ELSE rest

\* if(vec.size() != pp.ITEM_NUM) exit(1)
SizeMismatch_only_shorter(vec, ITEM_NUM) == Len(vec) < ITEM_NUM

SizeMismatch(vec, ITEM_NUM) == Len(vec) # ITEM_NUM

\* one call on the PSI channel, with what it moved
PSICall(who, op, what, n, data) ==
  [who |-> who, op |-> op, what |-> what, n |-> n, data |-> data]

\* the set sizes are 2^0 .. 2^MaxLog, the elements 0 .. MaxElement
MaxLog == 1

MaxElement == 1

\* the input vectors of 1 .. 2^MaxLog elements
Vectors == UNION {[1..n -> 0..MaxElement] : n \in 1..Pow2[MaxLog]}

\* the statistical security parameters tried: the last is the default
StatParams == {1, 7, 40}

InitPSI ==
  \E vec_X \in Vectors, vec_Y \in Vectors, logX \in 0..MaxLog, logY \in 0..MaxLog,
     lambda \in StatParams :
     /\ psi = [pc |-> "psi", pp |-> Setup(128, lambda, logY, logX),
               vec_X |-> vec_X, vec_Y |-> vec_Y,
               spc |-> "start", rpc |-> "start",
               k1 |-> Unset, k2 |-> Unset,
               vec_Fk2_X |-> Unset, vec_Fk2k1_Y |-> Unset,
               vec_intersection |-> Unset,
               s2r |-> <<>>, r2s |-> <<>>, log |-> <<>>]
     /\ NoOTE /\ bmt = Idle /\ zk = Idle /\ bf = Idle

\* Send: the size check, the key k1, F_k1(y_i), io.SendEC25519Points
PSI_Send_Begin ==
  /\ psi.spc = "start"
  /\ IF SizeMismatch(psi.vec_Y, psi.pp.SENDER_ITEM_NUM)
       THEN psi' = [psi EXCEPT !.spc = "exit"]
       ELSE \E k1 \in {GenRandomBytes(ReSeed(fixed_seed, 0), 32)} :
            \E vec_Fk1_Y \in {HashAndMul(k1, psi.vec_Y, psi.pp.SENDER_ITEM_NUM)} :
              psi' = [psi EXCEPT
                 !.spc = "ReceiveEC25519Points",
                 !.k1 = k1,
                 !.s2r = psi.s2r \o vec_Fk1_Y,
                 !.log = Append(psi.log,
                           PSICall("S", "send", "vec_Fk1_Y",
                                   psi.pp.SENDER_ITEM_NUM, vec_Fk1_Y))]
  /\ UNCHANGED <<OTEvars, bmt, zk, bf>>

\* Send: io.ReceiveEC25519Points, (H(x_i)^k2)^k1, the truncation,
\* io.SendStringVector
PSI_Send_Reply ==
  /\ psi.spc = "ReceiveEC25519Points"
  /\ Len(psi.r2s) >= psi.pp.RECEIVER_ITEM_NUM
  /\ LET n == psi.pp.RECEIVER_ITEM_NUM IN
     \E vec_Fk2_X \in {Take(psi.r2s, n)} :
     \E vec_T \in {TruncateAll(MulAll(psi.k1, vec_Fk2_X, n), n, psi.pp.TRUNCATE_LEN)} :
        psi' = [psi EXCEPT
           !.spc = "done",
           !.r2s = Drop(psi.r2s, n),
           !.s2r = Append(psi.s2r, vec_T),
           !.log = psi.log \o
                   << PSICall("S", "recv", "vec_Fk2_X", n, vec_Fk2_X),
                      PSICall("S", "send", "vec_TRUNCATE_Fk1k2_X", n, vec_T) >>]
  /\ UNCHANGED <<OTEvars, bmt, zk, bf>>

\* Receive: the size check, the key k2, F_k2(x_i)
PSI_Receive_Begin ==
  /\ psi.rpc = "start"
  /\ IF SizeMismatch(psi.vec_X, psi.pp.RECEIVER_ITEM_NUM)
       THEN psi' = [psi EXCEPT !.rpc = "exit"]
       ELSE \E k2 \in {GenRandomBytes(ReSeed(fixed_seed, 0), 32)} :
              psi' = [psi EXCEPT
                 !.rpc = "ReceiveEC25519Points",
                 !.k2 = k2,
                 !.vec_Fk2_X = HashAndMul(k2, psi.vec_X, psi.pp.RECEIVER_ITEM_NUM)]
  /\ UNCHANGED <<OTEvars, bmt, zk, bf>>

\* Receive: io.ReceiveEC25519Points, io.SendEC25519Points, (H(y_i)^k1)^k2
PSI_Receive_Exchange ==
  /\ psi.rpc = "ReceiveEC25519Points"
  /\ Len(psi.s2r) >= psi.pp.SENDER_ITEM_NUM
  /\ LET n == psi.pp.SENDER_ITEM_NUM IN
     \E vec_Fk1_Y \in {Take(psi.s2r, n)} :
        psi' = [psi EXCEPT
           !.rpc = "ReceiveStringVector",
           !.s2r = Drop(psi.s2r, n),
           !.r2s = psi.r2s \o psi.vec_Fk2_X,
           !.vec_Fk2k1_Y = MulAll(psi.k2, vec_Fk1_Y, n),
           !.log = psi.log \o
                   << PSICall("R", "recv", "vec_Fk1_Y", n, vec_Fk1_Y),
                      PSICall("R", "send", "vec_Fk2_X",
                              psi.pp.RECEIVER_ITEM_NUM, psi.vec_Fk2_X) >>]
  /\ UNCHANGED <<OTEvars, bmt, zk, bf>>

\* Receive: io.ReceiveStringVector, the set S, the intersection
PSI_Receive_Intersect ==
  /\ psi.rpc = "ReceiveStringVector"
  /\ Len(psi.s2r) >= 1
  /\ \E vec_T \in {psi.s2r[1]} :
     \E S \in {{Truncate(psi.vec_Fk2k1_Y[i], psi.pp.TRUNCATE_LEN) :
                  i \in 1..psi.pp.SENDER_ITEM_NUM}} :
        psi' = [psi EXCEPT
           !.rpc = "done",
           !.s2r = Drop(psi.s2r, 1),
           !.vec_intersection =
              Intersection(psi.vec_X, vec_T, S, psi.pp.RECEIVER_ITEM_NUM),
           !.log = Append(psi.log,
                     PSICall("R", "recv", "vec_TRUNCATE_Fk1k2_X", Len(vec_T), vec_T))]
  /\ UNCHANGED <<OTEvars, bmt, zk, bf>>

NextPSI ==
  \/ PSI_Send_Begin
  \/ PSI_Send_Reply
  \/ PSI_Receive_Begin
  \/ PSI_Receive_Exchange
  \/ PSI_Receive_Intersect

SpecPSI == InitPSI /\ [][NextPSI]_vars

\* the elements of a vector
Elements(vec) == {vec[i] : i \in 1..Len(vec)}

\* F_k1(F_k2(x)), the value the two parties compare, truncated as the run does
TruncatedPRF(x) ==
  Truncate(x25519_scalar_mulx(psi.k1, x25519_scalar_mulx(psi.k2, BlockToBytes(x))),
           psi.pp.TRUNCATE_LEN)

\* the truncations of the PRF values of distinct inputs of this run differ
NoTruncationCollision ==
  \A x, y \in Elements(psi.vec_X) \cup Elements(psi.vec_Y) :
     x # y => TruncatedPRF(x) # TruncatedPRF(y)

\* the PRF commutes on the inputs of this run
PRFCommutes ==
  \A x \in Elements(psi.vec_X) \cup Elements(psi.vec_Y) :
     x25519_scalar_mulx(psi.k1, x25519_scalar_mulx(psi.k2, BlockToBytes(x)))
       = x25519_scalar_mulx(psi.k2, x25519_scalar_mulx(psi.k1, BlockToBytes(x)))

\* the elements of vec_X that occur in vec_Y, in the order of vec_X
Common == SelectSeq(psi.vec_X, LAMBDA x : x \in Elements(psi.vec_Y))

\* C3: when the PRF commutes and truncations of distinct PRF values do not
\* collide, Receive returns exactly the elements of vec_X that occur in
\* vec_Y, in the order and with the multiplicity they have in vec_X; for
\* vec_X = vec_Y that is all of vec_X.
C3_PSIOutput ==
  (psi.pc = "psi" /\ psi.rpc = "done" /\ PRFCommutes /\ NoTruncationCollision)
    => /\ psi.vec_intersection = Common
       /\ psi.vec_X = psi.vec_Y => psi.vec_intersection = psi.vec_X

\* a finished run over vec_X = <<1, 1>> and vec_Y = <<0, 1>>: a repeated
\* element is returned twice, with both inputs present and no collision
C3_Witness ==
  /\ psi.pc = "psi" /\ psi.rpc = "done" /\ PRFCommutes /\ NoTruncationCollision
  /\ psi.vec_X = <<1, 1>> /\ psi.vec_Y = <<0, 1>>
  /\ psi.vec_intersection = <<1, 1>>

\* the send calls of the PSI channel, in order
PSISends == SelectSeq(psi.log, LAMBDA c : c.op = "send")

\* the three messages the wire schedule lists
PSISchedule ==
  LET A == [i \in 1..Len(psi.vec_Y) |->
              x25519_scalar_mulx(psi.k1, BlockToBytes(psi.vec_Y[i]))]
      B == [j \in 1..Len(psi.vec_X) |->
              x25519_scalar_mulx(psi.k2, BlockToBytes(psi.vec_X[j]))]
      T == [j \in 1..Len(psi.vec_X) |->
              [b \in 1..psi.pp.TRUNCATE_LEN |->
                 x25519_scalar_mulx(psi.k1, B[j])[b - 1]]]
  IN << PSICall("S", "send", "vec_Fk1_Y", Len(psi.vec_Y), A),
        PSICall("R", "send", "vec_Fk2_X", Len(psi.vec_X), B),
        PSICall("S", "send", "vec_TRUNCATE_Fk1k2_X", Len(psi.vec_X), T) >>

\* C9: the messages of a PSI run are, in this order, |Y| points F_k1(y_i) from
\* the sender, |X| points F_k2(x_j) from the receiver, and |X| strings of
\* TRUNCATE_LEN bytes from the sender, string j being the first TRUNCATE_LEN
\* bytes of B[j]^k1; a finished run has exchanged exactly these three.
C9_ThreeMessages ==
  psi.pc = "psi" =>
    /\ Len(PSISends) <= 3
    /\ \A m \in 1..Len(PSISends) : PSISends[m] = PSISchedule[m]
    /\ (psi.spc = "done" /\ psi.rpc = "done") =>
          /\ Len(PSISends) = 3
          /\ Len(SelectSeq(psi.log, LAMBDA c : c.op = "recv")) = 3
          /\ psi.s2r = <<>> /\ psi.r2s = <<>>

\* a finished run with sets of different sizes and strings of several bytes
C9_Witness ==
  /\ psi.pc = "psi" /\ psi.spc = "done" /\ psi.rpc = "done"
  /\ Len(PSISends) = 3
  /\ Len(psi.vec_X) = 2 /\ Len(psi.vec_Y) = 1
  /\ psi.pp.TRUNCATE_LEN > 1
  /\ PSISends[3].data[1] # PSISends[3].data[2]

\* C11: when vec_Y.size() # pp.SENDER_ITEM_NUM, Send exits before any send or
\* receive; when vec_X.size() # pp.RECEIVER_ITEM_NUM, Receive exits before any
\* send or receive and returns no intersection.
C11_SizeMismatchExits ==
  psi.pc = "psi" =>
    /\ Len(psi.vec_Y) # psi.pp.SENDER_ITEM_NUM =>
         /\ psi.spc \in {"start", "exit"}
         /\ \A m \in 1..Len(psi.log) : psi.log[m].who # "S"
         /\ psi.k1 = Unset
    /\ Len(psi.vec_X) # psi.pp.RECEIVER_ITEM_NUM =>
         /\ psi.rpc \in {"start", "exit"}
         /\ \A m \in 1..Len(psi.log) : psi.log[m].who # "R"
         /\ psi.vec_Fk2_X = Unset /\ psi.vec_Fk2k1_Y = Unset
         /\ psi.vec_intersection = Unset
    /\ psi.spc = "exit" => Len(psi.vec_Y) # psi.pp.SENDER_ITEM_NUM
    /\ psi.rpc = "exit" => Len(psi.vec_X) # psi.pp.RECEIVER_ITEM_NUM

\* both parties have exited, one on a vector longer and one on a vector
\* shorter than declared, and the channel was never used
C11_Witness ==
  /\ psi.pc = "psi" /\ psi.spc = "exit" /\ psi.rpc = "exit"
  /\ Len(psi.vec_Y) > psi.pp.SENDER_ITEM_NUM
  /\ Len(psi.vec_X) < psi.pp.RECEIVER_ITEM_NUM
  /\ psi.log = <<>> /\ psi.s2r = <<>> /\ psi.r2s = <<>>

\* the bits the truncation has to keep
TruncateBits ==
  psi.pp.statistical_security_parameter + psi.pp.LOG_SENDER_ITEM_NUM
    + psi.pp.LOG_RECEIVER_ITEM_NUM

\* TRUNCATE_LEN is the least number of bytes that hold TruncateBits bits
TruncateLenIsCeiling ==
  psi.pc = "psi" =>
    /\ 8 * psi.pp.TRUNCATE_LEN >= TruncateBits
    /\ 8 * (psi.pp.TRUNCATE_LEN - 1) < TruncateBits

\* C12: Setup sets TRUNCATE_LEN to ceil((lambda_s + LOG_SENDER_ITEM_NUM +
\* LOG_RECEIVER_ITEM_NUM) / 8), and no step of Send or Receive changes it.
C12_TruncateLen ==
  []TruncateLenIsCeiling /\ [][psi.pc = "psi" => psi'.pp = psi.pp]_vars

\* a finished run whose bit count is one more than a multiple of 8, so that
\* rounding matters
C12_Witness ==
  /\ psi.pc = "psi" /\ psi.spc = "done" /\ psi.rpc = "done"
  /\ TruncateBits % 8 = 1
  /\ 8 * psi.pp.TRUNCATE_LEN = TruncateBits + 7

\* what either party computes from the public constant fixed_seed alone
KeyFromSharedConstant == GenRandomBytes(ReSeed(fixed_seed, 0), 32)

\* C24: k1 and k2 are independently sampled secrets: k1 is no deterministic
\* function of what the receiver knows, k2 none of what the sender knows, and
\* the parties are not forced to the same key by a shared constant seed.
C24_IndependentKeys ==
  /\ psi.k1 # Unset => psi.k1 # KeyFromSharedConstant
  /\ psi.k2 # Unset => psi.k2 # KeyFromSharedConstant
  /\ (psi.k1 # Unset /\ psi.k2 # Unset) => psi.k1 # psi.k2

(***************************************************************************)
(* NIZK proof of discrete-logarithm equality (nizk_dlog_equality.hpp).     *)
(* Not in the source tree: ECPoint, BigInt, Hash::StringToBigInt.  The     *)
(* group is modelled by Z_order written additively, as the code writes it. *)
(***************************************************************************)
order == 5

\* ECPoint::operator*(BigInt)
PointMul(P, k) == (P * k) % order

\* ECPoint::operator+(ECPoint)
PointAdd(P, Q) == (P + Q) % order

\* ECPoint::ToByteString(): the compressed form, a tag and a coordinate
ToByteString(P) == <<2 + (P % 2), P>>

\* the values of Hash::StringToBigInt, not reduced modulo the order
HashRange == 11

\* Hash::StringToBigInt(str)
RECURSIVE StringToBigInt(_)
StringToBigInt(str) ==
  IF str = <<>> THEN 7
  ELSE (3 * StringToBigInt(SubSeq(str, 1, Len(str) - 1)) + str[Len(str)] + 1) % HashRange

\* transcript_str += g1 + g2 + h1 + h2; transcript_str += A1 + A2
Transcript_prefix_last(transcript_str, instance, A1, A2) ==
  ToByteString(instance.g1) \o ToByteString(instance.g2)
    \o ToByteString(instance.h1) \o ToByteString(instance.h2)
    \o ToByteString(A1) \o ToByteString(A2) \o transcript_str

Transcript(transcript_str, instance, A1, A2) ==
  transcript_str \o ToByteString(instance.g1) \o ToByteString(instance.g2)
                 \o ToByteString(instance.h1) \o ToByteString(instance.h2)
                 \o ToByteString(A1) \o ToByteString(A2)

\* std::string &transcript_str: what the caller's string holds on return, given
\* what it held on entry and what the function made of it
OnReturn_by_value(entry, appended) == entry

OnReturn(entry, appended) == appended

\* proof.z = (a + e * witness.w) % order
Response_without_challenge(a, e, w) == (a + w) % order

Response(a, e, w) == (a + e * w) % order

\* bool Validity = V1 && V2
Validity_first_check_only(V1, V2) == V1

Validity(V1, V2) == V1 /\ V2

\* the transcript prefixes of the callers: the empty string and one byte
MaxPrefixLen == 1

Prefixes == UNION {[1..n -> {1}] : n \in 0..MaxPrefixLen}

\* GenRandomDDHInstanceWitness(pp, instance, witness, flag): noisy = 0 stands
\* for flag = true; then a prover and a verifier, each with its own string, or
\* (reuse) a verifier that is handed the string the prover leaves
InitNIZK ==
  \E w \in 0..(order - 1), g1 \in 1..(order - 1), g2 \in 1..(order - 1),
     noisy \in 0..(order - 1), p \in Prefixes, vp \in Prefixes, reuse \in BOOLEAN :
     /\ reuse => vp = <<>>
     /\ zk = [pc |-> "start", reuse |-> reuse,
              instance |-> [g1 |-> g1, g2 |-> g2, h1 |-> PointMul(g1, w),
                            h2 |-> PointAdd(PointMul(g2, w), noisy)],
              witness |-> w,
              prefix |-> p, transcript_str |-> p,
              vprefix |-> vp, vtranscript_str |-> vp,
              a |-> Unset, proof |-> Unset, e |-> Unset, result |-> Unset]
     /\ NoOTE /\ bmt = Idle /\ psi = Idle /\ bf = Idle

\* DLOGEquality::Prove
NIZK_Prove ==
  /\ zk.pc = "start"
  /\ \E a \in 0..(order - 1) :
       LET A1 == PointMul(zk.instance.g1, a)
           A2 == PointMul(zk.instance.g2, a)
           str == Transcript(zk.transcript_str, zk.instance, A1, A2)
           e == StringToBigInt(str)
       IN zk' = [zk EXCEPT
            !.pc = "proved",
            !.transcript_str = OnReturn(zk.transcript_str, str),
            !.a = a,
            !.proof = [A1 |-> A1, A2 |-> A2, z |-> Response(a, e, zk.witness)]]
  /\ UNCHANGED <<OTEvars, bmt, psi, bf>>

\* DLOGEquality::Verify
NIZK_Verify ==
  /\ zk.pc = "proved"
  /\ LET entry == IF zk.reuse THEN zk.transcript_str ELSE zk.vtranscript_str
         str == Transcript(entry, zk.instance, zk.proof.A1, zk.proof.A2)
         e == StringToBigInt(str)
         V1 == PointMul(zk.instance.g1, zk.proof.z)
                 = PointAdd(zk.proof.A1, PointMul(zk.instance.h1, e))
         V2 == PointMul(zk.instance.g2, zk.proof.z)
                 = PointAdd(zk.proof.A2, PointMul(zk.instance.h2, e))
     IN zk' = [zk EXCEPT
          !.pc = "verified",
          !.vprefix = entry,
          !.vtranscript_str = OnReturn(entry, str),
          !.e = e,
          !.result = Validity(V1, V2)]
  /\ UNCHANGED <<OTEvars, bmt, psi, bf>>

NextNIZK ==
  \/ NIZK_Prove
  \/ NIZK_Verify

SpecNIZK == InitNIZK /\ [][NextNIZK]_vars

\* h1 = g1^w and h2 = g2^w
WellFormed ==
  /\ zk.instance.h1 = PointMul(zk.instance.g1, zk.witness)
  /\ zk.instance.h2 = PointMul(zk.instance.g2, zk.witness)

\* g1^z = A1 h1^e for the challenge Verify computed
Equation1 ==
  PointMul(zk.instance.g1, zk.proof.z)
    = PointAdd(zk.proof.A1, PointMul(zk.instance.h1, zk.e))

\* g2^z = A2 h2^e for the challenge Verify computed
Equation2 ==
  PointMul(zk.instance.g2, zk.proof.z)
    = PointAdd(zk.proof.A2, PointMul(zk.instance.h2, zk.e))

\* C4: for a well-formed instance and witness and any prefix p, the proof
\* made by Prove called with p is accepted by Verify called with a string
\* equal to p.
C4_Completeness ==
  (zk.pc = "verified" /\ WellFormed /\ zk.vprefix = zk.prefix)
    => zk.result = TRUE

\* an accepted proof over a non-empty prefix, with a witness and a challenge
\* that both matter
C4_Witness ==
  /\ zk.pc = "verified" /\ WellFormed /\ zk.vprefix = zk.prefix
  /\ zk.prefix # <<>>
  /\ zk.witness > 1 /\ zk.e % order > 1
  /\ zk.instance.g1 # zk.instance.g2
  /\ zk.result = TRUE

\* C5: with h1 = g1^w and h2 # g2^w, Verify returns false to its caller
\* whenever its challenge is non-zero modulo the order; and Verify returns
\* true only if both verification equations hold.
C5_RejectionIsAValue ==
  zk.pc = "verified" =>
    /\ zk.result \in BOOLEAN
    /\ ( /\ zk.instance.h1 = PointMul(zk.instance.g1, zk.witness)
         /\ zk.instance.h2 # PointMul(zk.instance.g2, zk.witness)
         /\ zk.e % order # 0 ) => zk.result = FALSE
    /\ zk.result = TRUE => (Equation1 /\ Equation2)

\* a run over an altered h2 in which the first equation holds and Verify
\* returns false
C5_Witness ==
  /\ zk.pc = "verified"
  /\ zk.instance.h2 # PointMul(zk.instance.g2, zk.witness)
  /\ zk.e % order # 0
  /\ zk.vprefix = zk.prefix
  /\ Equation1 /\ ~Equation2
  /\ zk.result = FALSE

\* enc(g1) || enc(g2) || enc(h1) || enc(h2) || enc(A1) || enc(A2)
EncInstanceAndCommitments ==
  ToByteString(zk.instance.g1) \o ToByteString(zk.instance.g2)
    \o ToByteString(zk.instance.h1) \o ToByteString(zk.instance.h2)
    \o ToByteString(zk.proof.A1) \o ToByteString(zk.proof.A2)

\* the response of Prove uses the hash of pinput as its challenge, and the
\* challenge of Verify is the hash of vinput
ChallengesHash(pinput, vinput) ==
  /\ zk.pc \in {"proved", "verified"} =>
       zk.proof.z = (zk.a + StringToBigInt(pinput) * zk.witness) % order
  /\ zk.pc = "verified" => zk.e = StringToBigInt(vinput)

\* C21 as stated: in Prove and in Verify the challenge e is the hash of
\* enc(g1) || enc(g2) || enc(h1) || enc(h2) || enc(A1) || enc(A2) || prefix,
\* the caller's prefix coming last, and the response is z = (a + e*w) mod q.
C21_PrefixLast ==
  zk.pc \in {"proved", "verified"} =>
    ChallengesHash(EncInstanceAndCommitments \o zk.prefix,
                   EncInstanceAndCommitments \o zk.vprefix)

\* C21 amended: in Prove and in Verify the challenge e is the hash of
\* prefix || enc(g1) || enc(g2) || enc(h1) || enc(h2) || enc(A1) || enc(A2),
\* the caller's prefix coming first, and the response is z = (a + e*w) mod q.
C21_PrefixFirst ==
  zk.pc \in {"proved", "verified"} =>
    ChallengesHash(zk.prefix \o EncInstanceAndCommitments,
                   zk.vprefix \o EncInstanceAndCommitments)

\* a verified run over non-empty prefixes in which the place of the prefix
\* changes both challenges and the response depends on the challenge
C21_Witness ==
  /\ zk.pc = "verified"
  /\ zk.prefix # <<>> /\ zk.vprefix # <<>>
  /\ zk.witness > 0
  /\ StringToBigInt(zk.prefix \o EncInstanceAndCommitments) % order
       # StringToBigInt(EncInstanceAndCommitments \o zk.prefix) % order
  /\ zk.e # StringToBigInt(EncInstanceAndCommitments \o zk.vprefix)

\* the challenge Prove computed: the hash of the string it built
ProveChallenge == StringToBigInt(zk.prefix \o EncInstanceAndCommitments)

\* the two calls hash different strings only to different challenges modulo q
NoCollision ==
  (zk.e % order = ProveChallenge % order) => zk.vprefix = zk.prefix

\* on return the caller's string is its value on entry followed by enc(g1),
\* enc(g2), enc(h1), enc(h2), enc(A1), enc(A2); a Verify handed the string as
\* left by Prove hashes another input than Prove did
InPlace ==
  /\ zk.pc \in {"proved", "verified"} =>
       zk.transcript_str = zk.prefix \o EncInstanceAndCommitments
  /\ zk.pc = "verified" =>
       /\ zk.vtranscript_str = zk.vprefix \o EncInstanceAndCommitments
       /\ zk.reuse => ( /\ zk.vprefix = zk.prefix \o EncInstanceAndCommitments
                        /\ zk.vtranscript_str # zk.prefix \o EncInstanceAndCommitments )

U32(v) == <<v % 256, (v \div 256) % 256, (v \div 65536) % 256, 0>>

\* a * b on uint32_t
Mul32(a, b) ==
  LET p0 == a[1] * b[1]
      p1 == a[1] * b[2] + a[2] * b[1] + (p0 \div 256)
      p2 == a[1] * b[3] + a[2] * b[2] + a[3] * b[1] + (p1 \div 256)
      p3 == a[1] * b[4] + a[2] * b[3] + a[3] * b[2] + a[4] * b[1] + (p2 \div 256)
  IN <<p0 % 256, p1 % 256, p2 % 256, p3 % 256>>

\* a + b on uint32_t
Add32(a, b) ==
  LET s0 == a[1] + b[1]
      s1 == a[2] + b[2] + (s0 \div 256)
      s2 == a[3] + b[3] + (s1 \div 256)
      s3 == a[4] + b[4] + (s2 \div 256)
  IN <<s0 % 256, s1 % 256, s2 % 256, s3 % 256>>

\* a % m for a uint32_t a and a small m
Mod32(a, m) ==
  ((((((a[4] % m) * 256 + a[3]) % m) * 256 + a[2]) % m) * 256 + a[1]) % m

\* a | b on bytes
OrByte(a, b) == a + b - AndByte(a, b)

\* static const uint8_t bit_mask[8]
bit_mask == [k \in 0..7 |-> Pow2[k]]

\* predefined_salt[0..7]: 0xAAAAAAAA, 0x55555555, 0x33333333, 0xCCCCCCCC,
\* 0x66666666, 0x99999999, 0xB5B5B5B5, 0x4B4B4B4B (hash_num <= 8 in the model)
predefined_salt ==
  [k \in 0..7 |->
     LET v == <<170, 85, 51, 204, 102, 153, 181, 75>>[k + 1] IN <<v, v, v, v>>]

\* static_cast<uint32_t>(0xA5A5A5A55A5A5A5A * 0xA5A5A5A5 + 1) = 0xB67A3E03
random_seed == <<3, 62, 122, 182>>

\* the loop vec_salt[i] = vec_salt[i] * vec_salt[(i+3) % size] + random_seed,
\* run in place from iteration i on
RECURSIVE SaltLoop(_, _, _, _)
SaltLoop(vec_salt, i, hash_num, seed) ==
  IF i >= hash_num THEN vec_salt
  ELSE SaltLoop([vec_salt EXCEPT
                   ![i] = Add32(Mul32(vec_salt[i], vec_salt[(i + 3) % hash_num]), seed)],
                i + 1, hash_num, seed)

\* GenUniqueSaltVector(hash_num, random_seed), hash_num <= predefined_salt_num
GenUniqueSaltVector(hash_num, seed) ==
  SaltLoop([k \in 0..(hash_num - 1) |-> predefined_salt[k]], 0, hash_num, seed)

\* FastKeyedHash(salt, input, LEN): a uint32_t
FastKeyedHash(salt, input) ==
  Add32(Mul32(Add32(salt, U32(input)), U32(2 * input + 40503)), U32(input))

\* BloomFilter(projected_element_num, 2^-e): -log2(p) = e exactly, and the
\* double 1.44 * n * e truncates to (144 n e) / 100 for the n, e of the model
BloomFilter(projected_element_num, e) ==
  LET table_size == (144 * projected_element_num * e) \div 100 IN
  [hash_num |-> e,
   random_seed |-> random_seed,
   vec_salt |-> GenUniqueSaltVector(e, random_seed),
   table_size |-> table_size,
   bit_table |-> Zeros(table_size \div 8),
   projected_element_num |-> projected_element_num,
   inserted_element_num |-> 0]

\* the bit PlainInsert and PlainContain address for salt i
BitIndex(f, i, input) == Mod32(FastKeyedHash(f.vec_salt[i], input), f.table_size)

\* whether an access of salt i leaves bit_table
OutOfBounds(f, i, input) == (BitIndex(f, i, input) \div 8) >= Size(f.bit_table)

\* the PlainInsert loop from iteration i on; mem is bit_table and the byte
\* that follows its storage
RECURSIVE PlainInsertLoop(_, _, _, _)
PlainInsertLoop(f, mem, i, input) ==
  IF i >= f.hash_num THEN mem
  ELSE LET bit_index == BitIndex(f, i, input)
           byte == bit_index \div 8
           mask == bit_mask[bit_index % 8]
       IN PlainInsertLoop(f,
            IF byte < Size(mem.bit_table)
              THEN [mem EXCEPT !.bit_table[byte] = OrByte(@, mask)]
              ELSE [mem EXCEPT !.beyond = OrByte(@, mask)],
            i + 1, input)

\* the PlainContain loop from iteration i on
RECURSIVE PlainContainLoop(_, _, _, _)
PlainContainLoop(f, mem, i, input) ==
  IF i >= Size(f.vec_salt) THEN TRUE
  ELSE LET bit_index == BitIndex(f, i, input)
           byte == bit_index \div 8
           mask == bit_mask[bit_index % 8]
           read == IF byte < Size(mem.bit_table) THEN mem.bit_table[byte] ELSE mem.beyond
       IN IF AndByte(read, mask) # mask THEN FALSE
          ELSE PlainContainLoop(f, mem, i + 1, input)

\* n <= MaxProjected, p = 2^-e with e <= MaxExp, elements 0 .. MaxItem, and at
\* most MaxInserted insertions between two Clear
MaxProjected == 3

MaxExp == 3

MaxItem == 2

MaxInserted == 2

\* what the byte after bit_table's storage may hold
ForeignBytes == {0, 255}

InitBloom ==
  \E n \in 1..MaxProjected, e \in 1..MaxExp, beyond \in ForeignBytes :
     /\ bf = [pc |-> "ready", f |-> BloomFilter(n, e), beyond |-> beyond,
              e |-> e, inserted |-> {}, contain |-> Unset]
     /\ NoOTE /\ bmt = Idle /\ psi = Idle /\ zk = Idle

\* Insert(element): an access past bit_table either faults or lands on the
\* byte that follows
BF_Insert ==
  /\ bf.pc = "ready"
  /\ bf.f.inserted_element_num < MaxInserted
  /\ \E x \in 0..MaxItem, fault \in BOOLEAN :
       IF fault /\ \E i \in 0..(bf.f.hash_num - 1) : OutOfBounds(bf.f, i, x)
         THEN bf' = [bf EXCEPT !.pc = "crashed"]
         ELSE \E mem \in {PlainInsertLoop(bf.f,
                            [bit_table |-> bf.f.bit_table, beyond |-> bf.beyond], 0, x)} :
                bf' = [bf EXCEPT
                   !.f.bit_table = mem.bit_table,
                   !.beyond = mem.beyond,
                   !.f.inserted_element_num = @ + 1,
                   !.inserted = @ \cup {x}]
  /\ UNCHANGED <<OTEvars, bmt, psi, zk>>

\* Contain(element), its result kept for the caller
BF_Contain ==
  /\ bf.pc = "ready"
  /\ \E x \in 0..MaxItem, fault \in BOOLEAN :
       LET mem == [bit_table |-> bf.f.bit_table, beyond |-> bf.beyond]
           \* the accesses made before the loop returns
           reached == {i \in 0..(bf.f.hash_num - 1) :
                         \A j \in 0..(i - 1) :
                            PlainContainLoop([bf.f EXCEPT !.vec_salt =
                               [k \in 0..j |-> bf.f.vec_salt[k]]], mem, 0, x)}
       IN IF fault /\ \E i \in reached : OutOfBounds(bf.f, i, x)
            THEN bf' = [bf EXCEPT !.pc = "crashed",
                          !.contain = [element |-> x, inserted |-> x \in bf.inserted,
                                       returned |-> FALSE, result |-> FALSE]]
            ELSE bf' = [bf EXCEPT
                          !.contain = [element |-> x, inserted |-> x \in bf.inserted,
                                       returned |-> TRUE,
                                       result |-> PlainContainLoop(bf.f, mem, 0, x)]]
  /\ UNCHANGED <<OTEvars, bmt, psi, zk>>

\* Clear()
BF_Clear ==
  /\ bf.pc = "ready"
  /\ bf' = [bf EXCEPT
       !.f.bit_table = [a \in DOMAIN bf.f.bit_table |-> 0],
       !.f.inserted_element_num = 0,
       !.inserted = {}]
  /\ UNCHANGED <<OTEvars, bmt, psi, zk>>

\* the owner of the memory that follows bit_table's storage writes its byte
BF_ForeignWrite ==
  /\ bf.pc = "ready"
  /\ \E v \in ForeignBytes : bf' = [bf EXCEPT !.beyond = v]
  /\ UNCHANGED <<OTEvars, bmt, psi, zk>>

NextBloom ==
  \/ BF_Insert
  \/ BF_Contain
  \/ BF_Clear
  \/ BF_ForeignWrite

SpecBloom == InitBloom /\ [][NextBloom]_vars

\* C7: Contain(x) returns true for every x inserted since construction or
\* since the last Clear.
C7_NoFalseNegatives ==
  (bf.pc # "idle" /\ bf.contain # Unset /\ bf.contain.inserted)
    => (bf.contain.returned /\ bf.contain.result = TRUE)

\* the same, for the filters whose table_size is a multiple of 8, where no
\* access leaves bit_table
C7_NoFalseNegativesInBounds ==
  (bf.pc # "idle" /\ bf.contain # Unset /\ bf.contain.inserted
     /\ bf.f.table_size % 8 = 0)
    => (bf.contain.returned /\ bf.contain.result = TRUE)

\* C18: BloomFilter(n, 2^-e) has hash_num = e, table_size = ceil(1.44 n e) and
\* as many salts as hash_num.
C18_Parameters ==
  bf.pc # "idle" =>
    /\ bf.f.hash_num = bf.e
    /\ 100 * bf.f.table_size >= 144 * bf.f.projected_element_num * bf.e
    /\ 100 * (bf.f.table_size - 1) < 144 * bf.f.projected_element_num * bf.e
    /\ Size(bf.f.vec_salt) = bf.f.hash_num

\* what the constructor computes: the two casts truncate
C18_ParametersTruncated ==
  bf.pc # "idle" =>
    /\ bf.f.hash_num = bf.e
    /\ 100 * bf.f.table_size <= 144 * bf.f.projected_element_num * bf.e
    /\ 100 * (bf.f.table_size + 1) > 144 * bf.f.projected_element_num * bf.e
    /\ Size(bf.f.vec_salt) = bf.f.hash_num

\* C25: every PlainInsert and PlainContain accesses bit_table only at byte
\* indices below bit_table.size(), also when table_size is no multiple of 8:
\* no call faults on an access and no inserted element has a salt whose bit
\* lies in a byte past bit_table.
C25_AccessesInBounds ==
  bf.pc # "idle" =>
    /\ bf.pc # "crashed"
    /\ \A x \in bf.inserted :
         \A i \in 0..(bf.f.hash_num - 1) : ~OutOfBounds(bf.f, i, x)
    /\ (bf.contain # Unset /\ bf.contain.result) =>
         \A i \in 0..(bf.f.hash_num - 1) : ~OutOfBounds(bf.f, i, bf.contain.element)

(***************************************************************************)
(* Bloom filter serialization: WriteObject / ReadObject on a buffer and on *)
(* a file.  The filter G that reads keeps table_size as a uint32_t and the *)
(* size of its bit_table beside the bytes the medium supplied, because a   *)
(* read may give it a table_size no filter of the model was built with.    *)
(***************************************************************************)
\* the uint32_t stored at buf[at .. at+3]
Limbs(buf, at) == <<buf[at], buf[at + 1], buf[at + 2], buf[at + 3]>>

\* the value of a uint32_t below 2^31
Nat32(b) == b[1] + 256 * b[2] + 65536 * b[3] + 16777216 * b[4]

\* table_size / 8 on a uint32_t
Div8(b) == (b[1] \div 8) + 32 * b[2] + 8192 * b[3] + 2097152 * b[4]

\* ObjectSize()
ObjectSize(f) == 3 * 4 + f.table_size \div 8

\* WriteObject(char* buffer): the bytes the four memcpy store, in order
WriteObjectBuffer(f) ==
  [a \in 0..(4 + 4 + 4 + (f.table_size \div 8) - 1) |->
     IF a < 4 THEN U32(f.hash_num)[a + 1]
     ELSE IF a < 8 THEN f.random_seed[a - 3]
     ELSE IF a < 12 THEN U32(f.table_size)[a - 7]
     ELSE f.bit_table[a - 12]]

\* ReadObject(char* buffer)
ReadObjectBuffer(buffer) ==
  LET hash_num == Nat32(Limbs(buffer, 0))
      seed == Limbs(buffer, 4)
      table_size == Limbs(buffer, 8)
  IN [hash_num |-> hash_num,
      random_seed |-> seed,
      vec_salt |-> GenUniqueSaltVector(hash_num, seed),
      table_size |-> table_size,
      bit_table_size |-> Div8(table_size),
      bit_table |-> Slice(buffer, 12, Div8(table_size))]

\* WriteObject(std::string file_name): three writes of 8 bytes from the
\* address of a 4-byte member, which carry the member and the 4 bytes that
\* follow it in the object (padding, of any content), then bit_table
WriteObjectFile(f, pad) ==
  [a \in 0..(8 + 8 + 8 + (f.table_size \div 8) - 1) |->
     IF a < 4 THEN U32(f.hash_num)[a + 1]
     ELSE IF a < 8 THEN pad
     ELSE IF a < 12 THEN f.random_seed[a - 7]
     ELSE IF a < 16 THEN pad
     ELSE IF a < 20 THEN U32(f.table_size)[a - 15]
     ELSE IF a < 24 THEN pad
     ELSE f.bit_table[a - 24]]

\* ReadObject(std::string file_name): three reads of sizeof(uint32_t) bytes,
\* then table_size/8 bytes of which the file supplies those it still has
ReadObjectFile(file) ==
  LET hash_num == Nat32(Limbs(file, 0))
      seed == Limbs(file, 4)
      table_size == Limbs(file, 8)
      left == Size(file) - 12
      got == IF Div8(table_size) < left THEN Div8(table_size) ELSE left
  IN [hash_num |-> hash_num,
      random_seed |-> seed,
      vec_salt |-> GenUniqueSaltVector(hash_num, seed),
      table_size |-> table_size,
      bit_table_size |-> Div8(table_size),
      bit_table |-> Slice(file, 12, got)]

InitBloomIO ==
  \E n \in 1..MaxProjected, e \in 1..MaxExp, beyond \in ForeignBytes :
     /\ bf = [pc |-> "ready", f |-> BloomFilter(n, e), beyond |-> beyond,
              inserted |-> {}, contain |-> Unset,
              buffer |-> Unset, buffer_of |-> Unset,
              file |-> Unset, file_of |-> Unset,
              g |-> Unset, g_from |-> "none", g_of |-> Unset, g_beyond |-> 0]
     /\ NoOTE /\ bmt = Idle /\ psi = Idle /\ zk = Idle

\* F.WriteObject(buffer) into a buffer of ObjectSize() bytes
BF_WriteObject ==
  /\ bf.pc = "ready"
  /\ bf' = [bf EXCEPT !.buffer = WriteObjectBuffer(bf.f), !.buffer_of = bf.f]
  /\ UNCHANGED <<OTEvars, bmt, psi, zk>>

\* G.ReadObject(buffer); the byte after G's bit_table is whatever follows
\* the storage resize() obtained
BF_ReadObject ==
  /\ bf.pc = "ready"
  /\ bf.buffer # Unset
  /\ \E v \in ForeignBytes :
       bf' = [bf EXCEPT !.g = ReadObjectBuffer(bf.buffer),
                        !.g_from = "buffer", !.g_of = bf.buffer_of,
                        !.g_beyond = v]
  /\ UNCHANGED <<OTEvars, bmt, psi, zk>>

\* F.WriteObject(file_name)
BF_WriteObjectFile ==
  /\ bf.pc = "ready"
  /\ \E pad \in ForeignBytes :
       bf' = [bf EXCEPT !.file = WriteObjectFile(bf.f, pad), !.file_of = bf.f]
  /\ UNCHANGED <<OTEvars, bmt, psi, zk>>

\* G.ReadObject(file_name) on the file written before
BF_ReadObjectFile ==
  /\ bf.pc = "ready"
  /\ bf.file # Unset
  /\ \E v \in ForeignBytes :
       bf' = [bf EXCEPT !.g = ReadObjectFile(bf.file),
                        !.g_from = "file", !.g_of = bf.file_of,
                        !.g_beyond = v]
  /\ UNCHANGED <<OTEvars, bmt, psi, zk>>

NextBloomIO ==
  \/ BF_Insert
  \/ BF_WriteObject
  \/ BF_ReadObject
  \/ BF_WriteObjectFile
  \/ BF_ReadObjectFile

SpecBloomIO == InitBloomIO /\ [][NextBloomIO]_vars

\* G holds the fields F has
SameFields ==
  /\ bf.g.hash_num = bf.f.hash_num
  /\ bf.g.random_seed = bf.f.random_seed
  /\ bf.g.table_size = U32(bf.f.table_size)
  /\ bf.g.bit_table_size = Size(bf.f.bit_table)
  /\ bf.g.bit_table = bf.f.bit_table
  /\ bf.g.vec_salt = bf.f.vec_salt

\* F.Contain(x) and G.Contain(x) for a G whose fields are F's, each reading
\* its own bit_table and the byte after it
ContainF(x) ==
  PlainContainLoop(bf.f, [bit_table |-> bf.f.bit_table, beyond |-> bf.beyond], 0, x)

ContainG(x) ==
  PlainContainLoop([hash_num |-> bf.g.hash_num, vec_salt |-> bf.g.vec_salt,
                    table_size |-> Nat32(bf.g.table_size),
                    bit_table |-> bf.g.bit_table],
                   [bit_table |-> bf.g.bit_table, beyond |-> bf.g_beyond], 0, x)

\* G has read the buffer that F, unchanged since, has written
BufferRoundTripDone ==
  bf.pc = "ready" /\ bf.g_from = "buffer" /\ bf.g_of = bf.f

\* C13: after F.WriteObject(buffer) into ObjectSize() bytes and
\* G.ReadObject(buffer), G's hash_num, random_seed, table_size, bit_table and
\* vec_salt equal F's, G.Contain(x) = F.Contain(x) for every x, and the
\* buffer holds exactly ObjectSize() bytes.
C13_BufferRoundTrip ==
  BufferRoundTripDone =>
    /\ SameFields
    /\ Size(bf.buffer) = ObjectSize(bf.buffer_of)
    /\ \A x \in 0..MaxItem : ContainG(x) = ContainF(x)

\* the fields and the byte count alone
C13_BufferRoundTripFields ==
  BufferRoundTripDone =>
    (SameFields /\ Size(bf.buffer) = ObjectSize(bf.buffer_of))

\* the whole of C13 for the filters whose table_size is a multiple of 8
C13_BufferRoundTripInBounds ==
  (BufferRoundTripDone /\ bf.f.table_size % 8 = 0) =>
    \A x \in 0..MaxItem : ContainG(x) = ContainF(x)

\* G has read the file that F, unchanged since, has written
FileRoundTripDone ==
  bf.pc = "ready" /\ bf.g_from = "file" /\ bf.g_of = bf.f

\* C14: after F.WriteObject(file) and G.ReadObject(file), G's hash_num,
\* random_seed, table_size, bit_table and vec_salt equal F's: every field is
\* read at the offset and with the width it was written with.
C14_FileRoundTrip ==
  FileRoundTripDone => SameFields

(***************************************************************************)
(* Public-parameter files: operator<<, operator>>, SavePP and FetchPP of   *)
(* ALSZOTE (mpc/ot/alsz_ote.hpp) and cwPRFPSI (mpc/pso/cwprf_psi.hpp).  A  *)
(* file is the sequence of its bytes.  Not in the source tree: the         *)
(* operators of Serialization for a plain value (sizeof bytes, as they lie *)
(* in memory) and those of NPOT::PP (one group element).                   *)
(***************************************************************************)
\* fout << a size_t: its 8 bytes, least significant first (values < 2^16)
WriteSizeT(v) == <<v % 256, (v \div 256) % 256, 0, 0, 0, 0, 0, 0>>

\* fin >> a size_t from the bytes at..at+7 of the file; -1 stands for a value
\* of 2^24 or more
ReadSizeT(file, at) ==
  IF \E k \in 3..7 : file[at + k] # 0 THEN -1
  ELSE file[at] + 256 * file[at + 1] + 65536 * file[at + 2]

\* fout << pp.baseOT and fin >> pp.baseOT: the element g, on NPOTLen bytes
NPOT_operator_out(baseOT) == <<baseOT.g>>

NPOT_operator_in(file, at) == [g |-> file[at]]

NPOTLen == Len(NPOT_operator_out([g |-> 0]))

\* ALSZOTE: std::ofstream &operator<<(std::ofstream &fout, const PP &pp)
ALSZOTE_operator_out(pp) ==
  NPOT_operator_out(pp.baseOT) \o <<pp.malicious>> \o WriteSizeT(pp.BASE_LEN)

\* the reader that would follow the declaration of PP
ALSZOTE_operator_in_declaration_order(file) ==
  [malicious |-> file[1],
   baseOT |-> NPOT_operator_in(file, 2),
   BASE_LEN |-> ReadSizeT(file, NPOTLen + 2)]

\* ALSZOTE: std::ifstream &operator>>(std::ifstream &fin, PP &pp)
ALSZOTE_operator_in(file) ==
  [malicious |-> file[NPOTLen + 1],
   baseOT |-> NPOT_operator_in(file, 1),
   BASE_LEN |-> ReadSizeT(file, NPOTLen + 2)]

\* cwPRFPSI: std::ofstream &operator<<(std::ofstream &fout, const PP &pp)
cwPRFPSI_operator_out(pp) ==
  WriteSizeT(pp.statistical_security_parameter)
    \o WriteSizeT(pp.computational_security_parameter)
    \o WriteSizeT(pp.LOG_SENDER_ITEM_NUM)
    \o WriteSizeT(pp.SENDER_ITEM_NUM)
    \o WriteSizeT(pp.LOG_RECEIVER_ITEM_NUM)
    \o WriteSizeT(pp.RECEIVER_ITEM_NUM)
    \o WriteSizeT(pp.TRUNCATE_LEN)

\* cwPRFPSI: std::ifstream &operator>>(std::ifstream &fin, PP &pp)
cwPRFPSI_operator_in(file) ==
  [statistical_security_parameter |-> ReadSizeT(file, 1),
   computational_security_parameter |-> ReadSizeT(file, 9),
   LOG_SENDER_ITEM_NUM |-> ReadSizeT(file, 17),
   SENDER_ITEM_NUM |-> ReadSizeT(file, 25),
   LOG_RECEIVER_ITEM_NUM |-> ReadSizeT(file, 33),
   RECEIVER_ITEM_NUM |-> ReadSizeT(file, 41),
   TRUNCATE_LEN |-> ReadSizeT(file, 49)]

\* the generators NPOT::Setup may have fixed
BasePoints == {1, 2}

\* the records saved: an ALSZOTE::PP whose fields the caller has set, and a
\* cwPRFPSI::PP from Setup
InitPP ==
  \E malicious \in {0, 1}, g \in BasePoints, base \in BaseLens,
     lambda \in StatParams, logX \in 0..MaxLog, logY \in 0..MaxLog :
     /\ io = [pc |-> "pp",
              ote_pp |-> [malicious |-> malicious, baseOT |-> [g |-> g],
                          BASE_LEN |-> base],
              psi_pp |-> Setup(128, lambda, logY, logX),
              ote_file |-> Unset, psi_file |-> Unset,
              ote_fetched |-> Unset, psi_fetched |-> Unset]
     /\ pp_BASE_LEN = BASE_LEN /\ snd = Idle /\ rcv = Idle /\ iolog = <<>>
     /\ bmt = Idle /\ psi = Idle /\ zk = Idle /\ bf = Idle

\* ALSZOTE::SavePP(pp, pp_filename)
ALSZOTE_SavePP ==
  /\ io.pc = "pp"
  /\ io' = [io EXCEPT !.ote_file = ALSZOTE_operator_out(io.ote_pp)]
  /\ UNCHANGED <<pp_BASE_LEN, snd, rcv, iolog, Others>>

\* ALSZOTE::FetchPP(pp, pp_filename) on the file saved before
ALSZOTE_FetchPP ==
  /\ io.pc = "pp"
  /\ io.ote_file # Unset
  /\ io' = [io EXCEPT !.ote_fetched = ALSZOTE_operator_in(io.ote_file)]
  /\ UNCHANGED <<pp_BASE_LEN, snd, rcv, iolog, Others>>

\* cwPRFPSI::SavePP(pp, pp_filename)
cwPRFPSI_SavePP ==
  /\ io.pc = "pp"
  /\ io' = [io EXCEPT !.psi_file = cwPRFPSI_operator_out(io.psi_pp)]
  /\ UNCHANGED <<pp_BASE_LEN, snd, rcv, iolog, Others>>

\* cwPRFPSI::FetchPP(pp, pp_filename) on the file saved before
cwPRFPSI_FetchPP ==
  /\ io.pc = "pp"
  /\ io.psi_file # Unset
  /\ io' = [io EXCEPT !.psi_fetched = cwPRFPSI_operator_in(io.psi_file)]
  /\ UNCHANGED <<pp_BASE_LEN, snd, rcv, iolog, Others>>

NextPP ==
  \/ ALSZOTE_SavePP
  \/ ALSZOTE_FetchPP
  \/ cwPRFPSI_SavePP
  \/ cwPRFPSI_FetchPP

SpecPP == InitPP /\ [][NextPP]_vars

\* the fields of cwPRFPSI::PP in the order of their declaration
cwPRFPSI_declared ==
  <<io.psi_pp.statistical_security_parameter,
    io.psi_pp.computational_security_parameter,
    io.psi_pp.LOG_SENDER_ITEM_NUM, io.psi_pp.SENDER_ITEM_NUM,
    io.psi_pp.LOG_RECEIVER_ITEM_NUM, io.psi_pp.RECEIVER_ITEM_NUM,
    io.psi_pp.TRUNCATE_LEN>>

\* the saved cwPRFPSI file holds the declared fields one after the other
cwPRFPSI_file_as_declared ==
  /\ Len(io.psi_file) = 8 * Len(cwPRFPSI_declared)
  /\ \A k \in 1..Len(cwPRFPSI_declared) :
       /\ io.psi_file[8 * k - 7] + 256 * io.psi_file[8 * k - 6] = cwPRFPSI_declared[k]
       /\ \A b \in 2..7 : io.psi_file[8 * k - 7 + b] = 0

\* FetchPP after SavePP gives back the record saved
PPFetchedEqual ==
  /\ io.ote_fetched # Unset => io.ote_fetched = io.ote_pp
  /\ io.psi_fetched # Unset => io.psi_fetched = io.psi_pp

\* C15 as stated: for ALSZOTE::PP and cwPRFPSI::PP operator<< writes the
\* fields in the order of the struct's declaration (malicious, baseOT,
\* BASE_LEN for ALSZOTE) and operator>> reads them in that order, so FetchPP
\* after SavePP yields an equal record.
C15_DeclarationOrder ==
  io.pc = "pp" =>
    /\ io.psi_file # Unset => cwPRFPSI_file_as_declared
    /\ io.ote_file # Unset =>
         /\ io.ote_file[1] = io.ote_pp.malicious
         /\ io.ote_file[2] = io.ote_pp.baseOT.g
         /\ io.ote_file[3] + 256 * io.ote_file[4] = io.ote_pp.BASE_LEN
    /\ PPFetchedEqual

\* C15, amended: operator<< of cwPRFPSI::PP writes the fields in declaration
\* order, operator<< of ALSZOTE::PP writes baseOT, malicious, BASE_LEN (the
\* declaration has malicious first); each operator>> reads in the order its
\* operator<< wrote, so FetchPP after SavePP yields an equal record.
C15_PPRoundTrip ==
  io.pc = "pp" =>
    /\ io.psi_file # Unset => cwPRFPSI_file_as_declared
    /\ io.ote_file # Unset =>
         /\ io.ote_file[1] = io.ote_pp.baseOT.g
         /\ io.ote_file[2] = io.ote_pp.malicious
         /\ io.ote_file[3] + 256 * io.ote_file[4] = io.ote_pp.BASE_LEN
         /\ Len(io.ote_file) = 10
    /\ PPFetchedEqual

\* both records saved and fetched, the ALSZOTE one with malicious and the
\* byte of baseOT different, so that the order of the two fields shows
C15_Witness ==
  /\ io.pc = "pp"
  /\ io.ote_fetched # Unset /\ io.psi_fetched # Unset
  /\ io.ote_pp.malicious # io.ote_pp.baseOT.g
  /\ io.ote_fetched.malicious = 1
  /\ io.psi_fetched.TRUNCATE_LEN = 6

(***************************************************************************)
(* Block::FromSparseBits and Block::ToDenseBits (crypto/block.hpp)         *)
(***************************************************************************)
\* const block zero_block
zero_block == Zeros(16)

\* FromSparseBits(bool_data, BIT_LEN, block_data, BLOCK_LEN): block_data[i] is
\* set to zero_block; then, for each j with bool_data[128*i+j] == 1, the call
\* SetBitN(block_data[i], j) takes the block by value and returns the block
\* with the bit set, and the statement drops what it returns: block_data[i]
\* is assigned nowhere else
FromSparseBits(bool_data, BLOCK_LEN) ==
  [a \in 0..(16 * BLOCK_LEN - 1) |-> zero_block[a % 16]]

\* ToDenseBits(block_data, BLOCK_LEN, bool_data, BIT_LEN): memcpy of BIT_LEN/8
\* bytes
ToDenseBits(block_data, BIT_LEN) == Slice(block_data, 0, BIT_LEN \div 8)

\* the sparse inputs are 128 * n bytes, n <= MaxSparseBlocks: all zero, or one
\* 1 at any place, or 1 everywhere
MaxSparseBlocks == 1

SparseInputs(n) ==
  {[a \in 0..(128 * n - 1) |-> IF a = p \/ p = 128 * n THEN 1 ELSE 0] :
     p \in -1..(128 * n)}

InitBits ==
  \E n \in 1..MaxSparseBlocks :
    \E bool_data \in SparseInputs(n) :
     /\ bmt = [pc |-> "sparse", n |-> n, bool_data |-> bool_data,
               block_data |-> Unset, dense |-> Unset]
     /\ NoOTE /\ psi = Idle /\ zk = Idle /\ bf = Idle

\* Block::FromSparseBits(bool_data, 128*n, block_data, n)
Bits_FromSparseBits ==
  /\ bmt.pc = "sparse"
  /\ bmt' = [bmt EXCEPT !.pc = "packed",
                        !.block_data = FromSparseBits(bmt.bool_data, bmt.n)]
  /\ UNCHANGED <<OTEvars, psi, zk, bf>>

\* Block::ToDenseBits(block_data, n, dense, 128*n)
Bits_ToDenseBits ==
  /\ bmt.pc = "packed"
  /\ bmt' = [bmt EXCEPT !.pc = "dense",
                        !.dense = ToDenseBits(bmt.block_data, 128 * bmt.n)]
  /\ UNCHANGED <<OTEvars, psi, zk, bf>>

NextBits ==
  \/ Bits_FromSparseBits
  \/ Bits_ToDenseBits

SpecBits == InitBits /\ [][NextBits]_vars

\* bit j, counted from the least significant bit of the 128-bit value, of
\* block i of a vector<block> held in memory least significant byte first
BlockBit(buf, i, j) == BitOf(buf[16 * i + (j \div 8)], j % 8)

\* C16: after FromSparseBits(bool_data, 128*n, block_data, n), bit j of
\* block_data[i] is 1 exactly when bool_data[128*i+j] is 1, and the dense
\* bytes ToDenseBits produces carry every input bit.
C16_SparsePacking ==
  /\ bmt.pc \in {"packed", "dense"} =>
       \A i \in 0..(bmt.n - 1), j \in 0..127 :
          BlockBit(bmt.block_data, i, j) = bmt.bool_data[128 * i + j]
  /\ bmt.pc = "dense" =>
       \A i \in 0..(bmt.n - 1), j \in 0..127 :
          BlockBit(bmt.dense, i, j) = bmt.bool_data[128 * i + j]

(***************************************************************************)
(* The parallel-for regions of ALSZOTE (PrepareReceive, Send, Receive) and *)
(* cwPRFPSI (Send, Receive).  A region runs iterations 0..N-1; a thread    *)
(* executes the statements of an iteration in order, and the statements of *)
(* different iterations interleave freely.  The vectors a region writes    *)
(* are constructed with N zero elements before the region starts.          *)
(***************************************************************************)
Regions ==
  {"PrepareReceive_seeds", "Send_mask", "Receive_unmask",
   "PSI_Send_hash_mul", "PSI_Send_mul", "PSI_Receive_hash_mul", "PSI_Receive_mul"}

\* the number of statements in the body of the loop
NumStatements(region) ==
  IF region \in {"Receive_unmask", "PSI_Send_mul", "PSI_Receive_mul"} THEN 1 ELSE 2

\* one slot for all iterations: vec[0]
OwnSlot_shared(i) == 0

\* the slot of a vector that iteration i addresses: vec[i]
OwnSlot(i) == i

\* statement s of iteration i: the places it reads, the place it writes and
\* the value it writes, given the inputs of the region and the memory so far
Statement(region, i, s, in, mem) ==
  LET o == OwnSlot(i) IN
  CASE region = "PrepareReceive_seeds" /\ s = 1 ->
         [array |-> "vec_inner_C0", index |-> o,
          reads |-> {<<"vec_inner_K0", o>>, <<"vec_T_seed", o>>},
          value |-> XorBlock(in.vec_inner_K0[o], in.vec_T_seed[o])]
    [] region = "PrepareReceive_seeds" /\ s = 2 ->
         [array |-> "vec_inner_C1", index |-> o,
          reads |-> {<<"vec_inner_K1", o>>, <<"vec_U_seed", o>>},
          value |-> XorBlock(in.vec_inner_K1[o], in.vec_U_seed[o])]
    [] region = "Send_mask" /\ s = 1 ->
         [array |-> "vec_outer_C0", index |-> o,
          reads |-> {<<"vec_m0", o>>, <<"vec_K0", o>>},
          value |-> XorBlock(in.vec_m0[o], in.vec_K0[o])]
    [] region = "Send_mask" /\ s = 2 ->
         [array |-> "vec_outer_C1", index |-> o,
          reads |-> {<<"vec_m1", o>>, <<"vec_K1", o>>},
          value |-> XorBlock(in.vec_m1[o], in.vec_K1[o])]
    [] region = "Receive_unmask" ->
         IF in.vec_receiver_selection_bit[o] = 0
           THEN [array |-> "vec_result", index |-> o,
                 reads |-> {<<"vec_receiver_selection_bit", o>>,
                            <<"vec_outer_C0", o>>, <<"vec_K", o>>},
                 value |-> XorBlock(in.vec_outer_C0[o], in.vec_K[o])]
           ELSE [array |-> "vec_result", index |-> o,
                 reads |-> {<<"vec_receiver_selection_bit", o>>,
                            <<"vec_outer_C1", o>>, <<"vec_K", o>>},
                 value |-> XorBlock(in.vec_outer_C1[o], in.vec_K[o])]
    [] region = "PSI_Send_hash_mul" /\ s = 1 ->
         [array |-> "vec_Hash_Y", index |-> o,
          reads |-> {<<"vec_Y", o>>},
          value |-> BlockToBytes(in.vec_Y[o])]
    [] region = "PSI_Send_hash_mul" /\ s = 2 ->
         [array |-> "vec_Fk1_Y", index |-> o,
          reads |-> {<<"k1", 0>>, <<"vec_Hash_Y", o>>},
          value |-> x25519_scalar_mulx(in.k1, mem.vec_Hash_Y[o])]
    [] region = "PSI_Send_mul" ->
         [array |-> "vec_Fk1k2_X", index |-> o,
          reads |-> {<<"k1", 0>>, <<"vec_Fk2_X", o>>},
          value |-> x25519_scalar_mulx(in.k1, in.vec_Fk2_X[o])]
    [] region = "PSI_Receive_hash_mul" /\ s = 1 ->
         [array |-> "vec_Hash_X", index |-> o,
          reads |-> {<<"vec_X", o>>},
          value |-> BlockToBytes(in.vec_X[o])]
    [] region = "PSI_Receive_hash_mul" /\ s = 2 ->
         [array |-> "vec_Fk2_X", index |-> o,
          reads |-> {<<"k2", 0>>, <<"vec_Hash_X", o>>},
          value |-> x25519_scalar_mulx(in.k2, mem.vec_Hash_X[o])]
    [] region = "PSI_Receive_mul" ->
         [array |-> "vec_Fk2k1_Y", index |-> o,
          reads |-> {<<"k2", 0>>, <<"vec_Fk1_Y", o>>},
          value |-> x25519_scalar_mulx(in.k2, in.vec_Fk1_Y[o])]

\* the regions run 1 .. MaxIterations iterations
MaxIterations == 3

\* block i of input vector t in data set d
DataBlock(t, i, d) == [b \in 0..15 |-> (37 * t + 11 * i + 5 * b + 101 * d + 1) % 256]

\* what a region reads and does not write
RegionInputs(region, N, d) ==
  LET Blk(t) == [i \in 0..(N - 1) |-> DataBlock(t, i, d)]
      Pts(t) == [i \in 0..(N - 1) |-> PointBytes(5 + 3 * i + t + d)]
      Elt == [i \in 0..(N - 1) |-> (i + d) % (MaxElement + 1)]
      key == GenRandomBytes([key |-> fixed_seed, counter |-> d], 32)
  IN CASE region = "PrepareReceive_seeds" ->
            [vec_inner_K0 |-> Blk(1), vec_inner_K1 |-> Blk(2),
             vec_T_seed |-> Blk(3), vec_U_seed |-> Blk(4)]
       [] region = "Send_mask" ->
            [vec_m0 |-> Blk(1), vec_m1 |-> Blk(2), vec_K0 |-> Blk(3), vec_K1 |-> Blk(4)]
       [] region = "Receive_unmask" ->
            [vec_receiver_selection_bit |-> [i \in 0..(N - 1) |-> (i + d) % 2],
             vec_outer_C0 |-> Blk(1), vec_outer_C1 |-> Blk(2), vec_K |-> Blk(3)]
       [] region = "PSI_Send_hash_mul" -> [vec_Y |-> Elt, k1 |-> key]
       [] region = "PSI_Send_mul" -> [vec_Fk2_X |-> Pts(1), k1 |-> key]
       [] region = "PSI_Receive_hash_mul" -> [vec_X |-> Elt, k2 |-> key]
       [] region = "PSI_Receive_mul" -> [vec_Fk1_Y |-> Pts(2), k2 |-> key]

\* the vectors a region writes, as constructed before it
RegionOutputs(region, N) ==
  LET Blk == [i \in 0..(N - 1) |-> Zeros(16)]
      Pts == [i \in 0..(N - 1) |-> Zeros(32)]
  IN CASE region = "PrepareReceive_seeds" -> [vec_inner_C0 |-> Blk, vec_inner_C1 |-> Blk]
       [] region = "Send_mask" -> [vec_outer_C0 |-> Blk, vec_outer_C1 |-> Blk]
       [] region = "Receive_unmask" -> [vec_result |-> Blk]
       [] region = "PSI_Send_hash_mul" -> [vec_Hash_Y |-> Pts, vec_Fk1_Y |-> Pts]
       [] region = "PSI_Send_mul" -> [vec_Fk1k2_X |-> Pts]
       [] region = "PSI_Receive_hash_mul" -> [vec_Hash_X |-> Pts, vec_Fk2_X |-> Pts]
       [] region = "PSI_Receive_mul" -> [vec_Fk2k1_Y |-> Pts]

InitOMP ==
  \E region \in Regions, N \in 1..MaxIterations, d \in 0..1 :
     /\ snd = [pc |-> "omp", region |-> region, N |-> N,
               in |-> RegionInputs(region, N, d),
               mem |-> RegionOutputs(region, N),
               at |-> [i \in 0..(N - 1) |-> 0],
               log |-> <<>>]
     /\ pp_BASE_LEN = BASE_LEN /\ rcv = Idle /\ io = Idle /\ iolog = <<>>
     /\ bmt = Idle /\ psi = Idle /\ zk = Idle /\ bf = Idle

\* some thread executes the next statement of an iteration it runs; log keeps
\* what the statement read and wrote
OMP_Statement ==
  /\ snd.pc = "omp"
  /\ \E i \in 0..(snd.N - 1) :
       /\ snd.at[i] < NumStatements(snd.region)
       /\ \E w \in {Statement(snd.region, i, snd.at[i] + 1, snd.in, snd.mem)} :
            snd' = [snd EXCEPT
               !.mem[w.array][w.index] = w.value,
               !.at[i] = @ + 1,
               !.log = Append(@, [iteration |-> i, array |-> w.array,
                                  index |-> w.index, reads |-> w.reads])]
  /\ UNCHANGED <<pp_BASE_LEN, rcv, io, iolog, Others>>

\* the end of the region: every iteration has run
OMP_Join ==
  /\ snd.pc = "omp"
  /\ \A i \in 0..(snd.N - 1) : snd.at[i] = NumStatements(snd.region)
  /\ snd' = [snd EXCEPT !.pc = "joined"]
  /\ UNCHANGED <<pp_BASE_LEN, rcv, io, iolog, Others>>

NextOMP ==
  \/ OMP_Statement
  \/ OMP_Join

SpecOMP == InitOMP /\ [][NextOMP]_vars

\* the loop run by one thread: iterations 0..N-1 in order, from statement s of
\* iteration i on
RECURSIVE SequentialFrom(_, _, _, _, _, _)
SequentialFrom(region, N, in, mem, i, s) ==
  IF i >= N THEN mem
  ELSE IF s > NumStatements(region) THEN SequentialFrom(region, N, in, mem, i + 1, 1)
  ELSE LET w == Statement(region, i, s, in, mem)
       IN SequentialFrom(region, N, in, [mem EXCEPT ![w.array][w.index] = w.value],
                         i, s + 1)

\* C17: in every parallel-for region of the OTE and PSI code, iteration i
\* writes only slots of index i and reads no place that another iteration
\* writes, so whatever the interleaving the region leaves what the loop run
\* sequentially leaves.
C17_IterationsIndependent ==
  snd.pc \in {"omp", "joined"} =>
    /\ \A a \in 1..Len(snd.log) : snd.log[a].index = snd.log[a].iteration
    /\ \A a \in 1..Len(snd.log), b \in 1..Len(snd.log) :
         (snd.log[a].iteration # snd.log[b].iteration) =>
            <<snd.log[b].array, snd.log[b].index>> \notin snd.log[a].reads
    /\ snd.pc = "joined" =>
         snd.mem = SequentialFrom(snd.region, snd.N, snd.in,
                                  RegionOutputs(snd.region, snd.N), 0, 1)

\* a region of two statements has ended after an interleaving that no
\* sequential run has: the last iteration started first and finished last
C17_Witness ==
  /\ snd.pc = "joined" /\ snd.N >= 2
  /\ snd.region = "PSI_Send_hash_mul"
  /\ snd.log[1].iteration = snd.N - 1
  /\ snd.log[2].iteration = 0
  /\ snd.log[Len(snd.log)].iteration = snd.N - 1
(***************************************************************************)
(* BloomFilter::Insert(Container&) with OMP defined: the iterations of the *)
(* parallel for run Insert(container[i]) on the one filter.  The statement *)
(* bit_table[bit_index >> 3] |= mask is a load and a store of the byte and *)
(* inserted_element_num++ a load and a store of the counter; neither is    *)
(* atomic or guarded, so the steps of the iterations interleave freely.    *)
(* The filters are those whose table_size is a multiple of 8, where every  *)
(* access is inside bit_table.                                             *)
(***************************************************************************)
MaxContainer == 2

\* the containers: up to MaxContainer elements
Containers == UNION {[1..n -> 0..MaxItem] : n \in 1..MaxContainer}

\* the (n, e) whose filter has whole bytes only
WholeByteShapes ==
  {s \in (1..MaxProjected) \X (1..MaxExp) :
     LET table_size == (144 * s[1] * s[2]) \div 100
     IN table_size > 0 /\ table_size % 8 = 0}

InitBloomOMP ==
  \E s \in WholeByteShapes, container \in Containers :
     /\ bf = [pc |-> "parallel", f |-> BloomFilter(s[1], s[2]),
              container |-> container,
              iteration |-> [i \in DOMAIN container |->
                               [i |-> 0, phase |-> "load", reg |-> 0]]]
     /\ NoOTE /\ bmt = Idle /\ psi = Idle /\ zk = Idle

\* PlainInsert, the load of bit_table[bit_index >> 3] for the salt i of the
\* iteration t
Insert_LoadByte ==
  /\ bf.pc = "parallel"
  /\ \E t \in DOMAIN bf.container :
       /\ bf.iteration[t].phase = "load"
       /\ LET bit_index == BitIndex(bf.f, bf.iteration[t].i, bf.container[t])
          IN bf' = [bf EXCEPT !.iteration[t].phase = "store",
                              !.iteration[t].reg = bf.f.bit_table[bit_index \div 8]]
  /\ UNCHANGED <<OTEvars, bmt, psi, zk>>

\* PlainInsert, the store of the byte or-ed with bit_mask[bit_index & 0x07],
\* and i++
Insert_StoreByte ==
  /\ bf.pc = "parallel"
  /\ \E t \in DOMAIN bf.container :
       /\ bf.iteration[t].phase = "store"
       /\ LET bit_index == BitIndex(bf.f, bf.iteration[t].i, bf.container[t])
              next == bf.iteration[t].i + 1
          IN bf' = [bf EXCEPT
               !.f.bit_table[bit_index \div 8] =
                  OrByte(bf.iteration[t].reg, bit_mask[bit_index % 8]),
               !.iteration[t].i = next,
               !.iteration[t].phase = IF next < bf.f.hash_num THEN "load" ELSE "load_num"]
  /\ UNCHANGED <<OTEvars, bmt, psi, zk>>

\* inserted_element_num++, the load
Insert_LoadNum ==
  /\ bf.pc = "parallel"
  /\ \E t \in DOMAIN bf.container :
       /\ bf.iteration[t].phase = "load_num"
       /\ bf' = [bf EXCEPT !.iteration[t].phase = "store_num",
                           !.iteration[t].reg = bf.f.inserted_element_num]
  /\ UNCHANGED <<OTEvars, bmt, psi, zk>>

\* inserted_element_num++, the store
Insert_StoreNum ==
  /\ bf.pc = "parallel"
  /\ \E t \in DOMAIN bf.container :
       /\ bf.iteration[t].phase = "store_num"
       /\ bf' = [bf EXCEPT !.iteration[t].phase = "done",
                           !.f.inserted_element_num = bf.iteration[t].reg + 1]
  /\ UNCHANGED <<OTEvars, bmt, psi, zk>>

\* the end of the parallel region: Insert(container) returns
Insert_Return ==
  /\ bf.pc = "parallel"
  /\ \A t \in DOMAIN bf.container : bf.iteration[t].phase = "done"
  /\ bf' = [bf EXCEPT !.pc = "returned"]
  /\ UNCHANGED <<OTEvars, bmt, psi, zk>>

NextBloomOMP ==
  \/ Insert_LoadByte
  \/ Insert_StoreByte
  \/ Insert_LoadNum
  \/ Insert_StoreNum
  \/ Insert_Return

SpecBloomOMP == InitBloomOMP /\ [][NextBloomOMP]_vars

\* C26: for every interleaving of the byte updates and of the counter
\* updates of the parallel Insert(container), once it has returned every
\* element of the container satisfies Contain and inserted_element_num has
\* grown by container.size().
C26_ParallelInsert ==
  bf.pc = "returned" =>
    /\ \A t \in DOMAIN bf.container :
         PlainContainLoop(bf.f, [bit_table |-> bf.f.bit_table, beyond |-> 0], 0,
                          bf.container[t])
    /\ bf.f.inserted_element_num = Len(bf.container)
(***************************************************************************)
(* empBitMatrixTranspose (crypto/block.hpp), one loop iteration a step.    *)
(* rr, cc and i are int, ROW_NUM and COLUMN_NUM uint64_t: in a comparison  *)
(* or a difference the int operand is converted to uint64_t.  A uint64_t   *)
(* is four 16-bit limbs, the least significant first.  An access outside   *)
(* input or output is undefined behaviour: the routine's state becomes     *)
(* "undefined" and nothing more is modelled.                               *)
(***************************************************************************)
\* the conversion of a non-negative int to uint64_t
U64(n) == <<n % 65536, n \div 65536, 0, 0>>

\* a - b in uint64_t, modulo 2^64
Sub64(a, b) ==
  LET d1 == a[1] - b[1]
      d2 == a[2] - b[2] - (IF d1 < 0 THEN 1 ELSE 0)
      d3 == a[3] - b[3] - (IF d2 < 0 THEN 1 ELSE 0)
      d4 == a[4] - b[4] - (IF d3 < 0 THEN 1 ELSE 0)
  IN <<(d1 + 65536) % 65536, (d2 + 65536) % 65536,
       (d3 + 65536) % 65536, (d4 + 65536) % 65536>>

\* a <= b in uint64_t
LessEq64(a, b) ==
  IF a[4] # b[4] THEN a[4] < b[4]
  ELSE IF a[3] # b[3] THEN a[3] < b[3]
  ELSE IF a[2] # b[2] THEN a[2] < b[2]
  ELSE a[1] <= b[1]

\* rr <= ROW_NUM - 16 and cc <= COLUMN_NUM - 16
WithinLess16(v, NUM) == LessEq64(U64(v), Sub64(U64(NUM), U64(16)))

\* #define INPUT(x, y) input[(x)*COLUMN_NUM/8 + (y)/8]: the index
INPUT(COLUMN_NUM, x, y) == ((x * COLUMN_NUM) \div 8) + (y \div 8)

\* #define OUTPUT(x, y) output[(y)*ROW_NUM/8 + (x)/8]: the index
OUTPUT(ROW_NUM, x, y) == ((y * ROW_NUM) \div 8) + (x \div 8)

\* for (i = 8; --i >= 0; vec = _mm_slli_epi64(vec, 1)) with the stores of the
\* three blocks: a uint16_t store at OUTPUT(rr, cc + i) ("u16"), byte stores
\* at OUTPUT(rr, cc + i) and OUTPUT(rr, cc + i + 8) ("pair"), one byte store
\* ("byte")
RECURSIVE EmpStoreLoop(_, _, _, _, _, _)
EmpStoreLoop(st, ROW_NUM, rr, cc, i, kind) ==
  IF st.oob \/ i < 0 THEN st
  ELSE LET h == movemask_epi8(st.tmp)
           a == OUTPUT(ROW_NUM, rr, cc + i)
           st1 == Store(st, a, h % 256)
           st2 == IF kind = "u16" THEN Store(st1, a + 1, h \div 256)
                  ELSE IF kind = "pair"
                    THEN Store(st1, OUTPUT(ROW_NUM, rr, cc + i + 8), h \div 256)
                  ELSE st1
       IN EmpStoreLoop([st2 EXCEPT !.tmp = slli_epi64_1(st.tmp)],
                       ROW_NUM, rr, cc, i - 1, kind)

\* the bytes of input a block reads: 16 rows ("u16"), a uint16_t in each of
\* 8 rows ("pair"), 8 rows ("byte")
EmpReads(COLUMN_NUM, rr, cc, kind) ==
  IF kind = "u16" THEN {INPUT(COLUMN_NUM, rr + k, cc) : k \in 0..15}
  ELSE IF kind = "pair"
    THEN {INPUT(COLUMN_NUM, rr + k, cc) + d : k \in 0..7, d \in {0, 1}}
  ELSE {INPUT(COLUMN_NUM, rr + k, cc) : k \in 0..7}

\* the 16 bytes the stores shift out: _mm_set_epi8 of 16 rows ("u16"); tmp.b[i]
\* and tmp.b[i + 8] from the uint16_t of row i ("pair"); _mm_set_epi16 of the
\* uint16_t of 8 rows ("epi16"); tmp.b[i] of 8 rows, the rest of tmp kept
\* ("byte")
EmpLoad(input, tmp, COLUMN_NUM, rr, cc, kind) ==
  [k \in 0..15 |->
     IF kind = "u16" THEN input[INPUT(COLUMN_NUM, rr + k, cc)]
     ELSE IF kind = "pair"
       THEN input[INPUT(COLUMN_NUM, rr + (k % 8), cc) + (k \div 8)]
     ELSE IF kind = "epi16"
       THEN input[INPUT(COLUMN_NUM, rr + (k \div 2), cc) + (k % 2)]
     ELSE IF k < 8 THEN input[INPUT(COLUMN_NUM, rr + k, cc)] ELSE tmp[k]]

\* one block: its loads, then its stores; the routine's state afterwards
EmpBlock(b, rr, cc, reads, load, stores) ==
  IF ~(EmpReads(b.COLUMN_NUM, rr, cc, reads) \subseteq DOMAIN b.input)
    THEN [b EXCEPT !.pc = "undefined"]
  ELSE LET st == EmpStoreLoop(
                   [out |-> b.output, oob |-> FALSE,
                    tmp |-> EmpLoad(b.input, b.tmp, b.COLUMN_NUM, rr, cc, load)],
                   b.ROW_NUM, rr, cc, 7, stores)
       IN IF st.oob THEN [b EXCEPT !.pc = "undefined", !.output = st.out]
          ELSE [b EXCEPT !.output = st.out,
                         !.tmp = IF load = "u16" \/ load = "epi16" THEN b.tmp ELSE st.tmp]

\* the callers' buffers: ROW_NUM * COLUMN_NUM / 8 bytes each, output zeroed;
\* tmp is not initialised
InitEMP ==
  \E ROW_NUM \in Dims, COLUMN_NUM \in Dims, k \in 0..MaxMatrix, t \in {0, 255} :
     /\ bmt = [pc |-> "main", ROW_NUM |-> ROW_NUM, COLUMN_NUM |-> COLUMN_NUM,
               input |-> MatrixOf(k, (ROW_NUM * COLUMN_NUM) \div 8),
               output |-> Zeros((ROW_NUM * COLUMN_NUM) \div 8),
               tmp |-> Fill(16, t), rr |-> 0, cc |-> 0]
     /\ NoOTE /\ psi = Idle /\ zk = Idle /\ bf = Idle

\* for (rr = 0; rr <= ROW_NUM - 16; rr += 16)
\*   for (cc = 0; cc < COLUMN_NUM; cc += 8): one 16x8 block
EMP_MainBlock ==
  /\ bmt.pc = "main"
  /\ WithinLess16(bmt.rr, bmt.ROW_NUM)
  /\ \E b \in {EmpBlock(bmt, bmt.rr, bmt.cc, "u16", "u16", "u16")} :
       bmt' = IF b.pc = "undefined" THEN b
              ELSE IF bmt.cc + 8 < bmt.COLUMN_NUM THEN [b EXCEPT !.cc = bmt.cc + 8]
              ELSE [b EXCEPT !.rr = bmt.rr + 16, !.cc = 0]
  /\ UNCHANGED <<OTEvars, psi, zk, bf>>

\* the end of the main loop; if (rr == ROW_NUM) return;
EMP_MainExit ==
  /\ bmt.pc = "main"
  /\ ~WithinLess16(bmt.rr, bmt.ROW_NUM)
  /\ bmt' = [bmt EXCEPT !.pc = IF bmt.rr = bmt.ROW_NUM THEN "returned" ELSE "pairs",
                        !.cc = 0]
  /\ UNCHANGED <<OTEvars, psi, zk, bf>>

\* for (cc = 0; cc <= COLUMN_NUM - 16; cc += 16): a pair of 8x8 blocks, in
\* the non-simd variant or in the _mm_set_epi16 variant
EMP_PairStep ==
  /\ bmt.pc = "pairs"
  /\ WithinLess16(bmt.cc, bmt.COLUMN_NUM)
  /\ LET simple == (bmt.COLUMN_NUM % 8 = 0 /\ bmt.COLUMN_NUM % 16 # 0)
                     \/ (bmt.ROW_NUM % 8 = 0 /\ bmt.ROW_NUM % 16 # 0)
     IN \E b \in {EmpBlock(bmt, bmt.rr, bmt.cc, "pair",
                           IF simple THEN "pair" ELSE "epi16", "pair")} :
          bmt' = IF b.pc = "undefined" THEN b ELSE [b EXCEPT !.cc = bmt.cc + 16]
  /\ UNCHANGED <<OTEvars, psi, zk, bf>>

\* the end of the pair loop; if (cc == COLUMN_NUM) return;
EMP_PairsExit ==
  /\ bmt.pc = "pairs"
  /\ ~WithinLess16(bmt.cc, bmt.COLUMN_NUM)
  /\ bmt' = [bmt EXCEPT !.pc = IF bmt.cc = bmt.COLUMN_NUM THEN "returned" ELSE "last"]
  /\ UNCHANGED <<OTEvars, psi, zk, bf>>

\* the remaining 8x8 block
EMP_LastBlock ==
  /\ bmt.pc = "last"
  /\ \E b \in {EmpBlock(bmt, bmt.rr, bmt.cc, "byte", "byte", "byte")} :
       bmt' = IF b.pc = "undefined" THEN b ELSE [b EXCEPT !.pc = "returned"]
  /\ UNCHANGED <<OTEvars, psi, zk, bf>>

NextEMP ==
  \/ EMP_MainBlock
  \/ EMP_MainExit
  \/ EMP_PairStep
  \/ EMP_PairsExit
  \/ EMP_LastBlock

SpecEMP == InitEMP /\ [][NextEMP]_vars

\* C27: for ROW_NUM and COLUMN_NUM positive multiples of 8, 8 included,
\* empBitMatrixTranspose reads only input bytes and writes only output bytes
\* with index below ROW_NUM*COLUMN_NUM/8, and it never runs a block past the
\* matrix: rr + 8 <= ROW_NUM and cc + 8 <= COLUMN_NUM whenever a block starts.
C27_EmpInBounds ==
  bmt.pc # "idle" =>
    /\ bmt.pc # "undefined"
    /\ bmt.pc \in {"main", "pairs", "last"} =>
         (bmt.rr <= bmt.ROW_NUM /\ bmt.cc <= bmt.COLUMN_NUM)
(***************************************************************************)
(* Block::Calc2ToTheN and Block::SetBitN (crypto/block.hpp).  A block is   *)
(* its 16 bytes in memory, the least significant first; bit p of the       *)
(* 128-bit value is bit p % 8 of byte p / 8, and bits 0..63 are the low    *)
(* 64-bit lane.                                                            *)
(***************************************************************************)
\* bit p of the 128-bit value x
Bit128(x, p) == BitOf(x[p \div 8], p % 8)

\* the block whose bit p is bit(p)
BlockOfBits(bit(_)) ==
  [k \in 0..15 |->
       bit(8 * k)           + 2 * bit(8 * k + 1)  + 4 * bit(8 * k + 2)
     + 8 * bit(8 * k + 3)   + 16 * bit(8 * k + 4) + 32 * bit(8 * k + 5)
     + 64 * bit(8 * k + 6)  + 128 * bit(8 * k + 7)]

\* _mm_slli_epi64(x, n): each 64-bit lane shifts left by n bits
slli_epi64(x, n) ==
  LET bit(p) == IF p % 64 >= n THEN Bit128(x, p - n) ELSE 0
  IN BlockOfBits(bit)

\* _mm_srli_si128(x, n): the whole value shifts right by n bytes
srli_si128(x, n) == [k \in 0..15 |-> IF k + n <= 15 THEN x[k + n] ELSE 0]

\* _mm_slli_si128(x, n): the whole value shifts left by n bytes
slli_si128(x, n) == [k \in 0..15 |-> IF k >= n THEN x[k - n] ELSE 0]

\* const block all_one_block
all_one_block == Fill(16, 255)

\* block Calc2ToTheN(int N)
Calc2ToTheN(N) ==
  LET onesLowHigh == slli_epi64(all_one_block, 63)
      single_one_block == IF N < 64 THEN srli_si128(onesLowHigh, 64 \div 8)
                          ELSE slli_si128(onesLowHigh, 64 \div 8)
  IN slli_epi64(single_one_block, N % 64)

\* block SetBitN(block value, int N): _mm_or_si128(value, Calc2ToTheN(N))
SetBitN(value, N) == [k \in 0..15 |-> OrByte(value[k], Calc2ToTheN(N)[k])]

\* the blocks SetBitN is called on: zero_block and the 16-byte matrices
BlockValues == {zero_block} \cup {MatrixOf(k, 16) : k \in 0..MaxMatrix}

InitSetBit ==
  \E value \in BlockValues, N \in 0..127 :
     /\ bmt = [pc |-> "call", value |-> value, N |-> N,
               power |-> Unset, result |-> Unset]
     /\ NoOTE /\ psi = Idle /\ zk = Idle /\ bf = Idle

\* a call of Calc2ToTheN(N)
Block_Calc2ToTheN ==
  /\ bmt.pc = "call"
  /\ bmt' = [bmt EXCEPT !.pc = "power", !.power = Calc2ToTheN(bmt.N)]
  /\ UNCHANGED <<OTEvars, psi, zk, bf>>

\* a call of SetBitN(value, N)
Block_SetBitN ==
  /\ bmt.pc = "power"
  /\ bmt' = [bmt EXCEPT !.pc = "set", !.result = SetBitN(bmt.value, bmt.N)]
  /\ UNCHANGED <<OTEvars, psi, zk, bf>>

NextSetBit ==
  \/ Block_Calc2ToTheN
  \/ Block_SetBitN

SpecSetBit == InitSetBit /\ [][NextSetBit]_vars

\* C30: for every N in 0..127, Calc2ToTheN(N) is the 128-bit value 2^N, bit N
\* set and every other bit zero, and SetBitN(value, N) is value with bit N
\* set and every other bit unchanged.
C30_SingleBit ==
  /\ bmt.pc \in {"power", "set"} =>
       \A p \in 0..127 : Bit128(bmt.power, p) = (IF p = bmt.N THEN 1 ELSE 0)
  /\ bmt.pc = "set" =>
       \A p \in 0..127 :
          Bit128(bmt.result, p) = (IF p = bmt.N THEN 1 ELSE Bit128(bmt.value, p))
(***************************************************************************)
(* cwPRF PSI over a channel of bounded buffering.  NetIO is not in the     *)
(* source tree: the channel is reliable and FIFO in each direction, holds  *)
(* at most `cap' array elements in flight, and a send of an array blocks   *)
(* element by element while the buffer is full, a receive while it is      *)
(* empty.  Both parties hold the same pp and inputs of the sizes pp names. *)
(***************************************************************************)
MaxCapacity == 2

\* the channel calls of Send, in program order
SendSchedule == <<"SendEC25519Points", "ReceiveEC25519Points", "SendStringVector">>

\* the channel calls of Receive, in program order
ReceiveSchedule_send_first == <<"SendEC25519Points", "ReceiveEC25519Points", "ReceiveStringVector">>

ReceiveSchedule == <<"ReceiveEC25519Points", "SendEC25519Points", "ReceiveStringVector">>

\* the call that follows `call' in a schedule, "done" after the last
CallAfter(schedule, call) ==
  LET k == CHOOSE j \in 1..Len(schedule) : schedule[j] = call
  IN IF k = Len(schedule) THEN "done" ELSE schedule[k + 1]

\* input vectors of n elements
FlowVectors(n) == {[i \in 1..n |-> (i + k) % (MaxElement + 1)] : k \in 0..1}

InitPSIFlow ==
  \E logX \in 0..MaxLog, logY \in 0..MaxLog, cap \in 1..MaxCapacity :
    \E vec_X \in FlowVectors(Pow2[logX]), vec_Y \in FlowVectors(Pow2[logY]) :
     /\ psi = [pc |-> "flow", pp |-> Setup(128, 40, logY, logX), cap |-> cap,
               vec_X |-> vec_X, vec_Y |-> vec_Y,
               spc |-> "start", rpc |-> "start", sn |-> 0, rn |-> 0,
               k1 |-> Unset, k2 |-> Unset,
               vec_Fk1_Y |-> <<>>, vec_Fk2_X |-> <<>>,
               s_vec_Fk2_X |-> <<>>, r_vec_Fk1_Y |-> <<>>,
               vec_TRUNCATE_Fk1k2_X |-> <<>>, r_vec_TRUNCATE_Fk1k2_X |-> <<>>,
               vec_intersection |-> Unset,
               s2r |-> <<>>, r2s |-> <<>>]
     /\ NoOTE /\ bmt = Idle /\ zk = Idle /\ bf = Idle

\* Send up to its first channel call: the size check, k1, F_k1(y_i)
Flow_Send_Begin ==
  /\ psi.pc = "flow" /\ psi.spc = "start"
  /\ IF SizeMismatch(psi.vec_Y, psi.pp.SENDER_ITEM_NUM)
       THEN psi' = [psi EXCEPT !.spc = "exit"]
       ELSE \E k1 \in {GenRandomBytes(ReSeed(fixed_seed, 0), 32)} :
              psi' = [psi EXCEPT
                 !.spc = SendSchedule[1], !.sn = 0, !.k1 = k1,
                 !.vec_Fk1_Y = HashAndMul(k1, psi.vec_Y, psi.pp.SENDER_ITEM_NUM)]
  /\ UNCHANGED <<OTEvars, bmt, zk, bf>>

\* io.SendEC25519Points(vec_Fk1_Y.data(), SENDER_ITEM_NUM): one more point
\* enters the channel
Flow_Send_SendPoints ==
  /\ psi.pc = "flow" /\ psi.spc = "SendEC25519Points"
  /\ Len(psi.s2r) < psi.cap
  /\ LET last == psi.sn + 1 = psi.pp.SENDER_ITEM_NUM
     IN psi' = [psi EXCEPT
          !.s2r = Append(psi.s2r, psi.vec_Fk1_Y[psi.sn + 1]),
          !.sn = IF last THEN 0 ELSE psi.sn + 1,
          !.spc = IF last THEN CallAfter(SendSchedule, psi.spc) ELSE psi.spc]
  /\ UNCHANGED <<OTEvars, bmt, zk, bf>>

\* io.ReceiveEC25519Points(vec_Fk2_X.data(), RECEIVER_ITEM_NUM): one more
\* point leaves the channel; after the last, (H(x_i)^k2)^k1 and the truncation
Flow_Send_ReceivePoints ==
  /\ psi.pc = "flow" /\ psi.spc = "ReceiveEC25519Points"
  /\ psi.r2s # <<>>
  /\ LET n == psi.pp.RECEIVER_ITEM_NUM
         got == Append(psi.s_vec_Fk2_X, Head(psi.r2s))
         last == Len(got) = n
     IN psi' = [psi EXCEPT
          !.r2s = Tail(psi.r2s),
          !.s_vec_Fk2_X = got,
          !.vec_TRUNCATE_Fk1k2_X =
             IF last THEN TruncateAll(MulAll(psi.k1, got, n), n, psi.pp.TRUNCATE_LEN)
             ELSE <<>>,
          !.spc = IF last THEN CallAfter(SendSchedule, psi.spc) ELSE psi.spc]
  /\ UNCHANGED <<OTEvars, bmt, zk, bf>>

\* io.SendStringVector(vec_TRUNCATE_Fk1k2_X, TRUNCATE_LEN): one more string
\* enters the channel; after the last, Send returns
Flow_Send_SendStrings ==
  /\ psi.pc = "flow" /\ psi.spc = "SendStringVector"
  /\ Len(psi.s2r) < psi.cap
  /\ LET last == psi.sn + 1 = psi.pp.RECEIVER_ITEM_NUM
     IN psi' = [psi EXCEPT
          !.s2r = Append(psi.s2r, psi.vec_TRUNCATE_Fk1k2_X[psi.sn + 1]),
          !.sn = IF last THEN 0 ELSE psi.sn + 1,
          !.spc = IF last THEN CallAfter(SendSchedule, psi.spc) ELSE psi.spc]
  /\ UNCHANGED <<OTEvars, bmt, zk, bf>>

\* Receive up to its first channel call: the size check, k2, F_k2(x_i)
Flow_Receive_Begin ==
  /\ psi.pc = "flow" /\ psi.rpc = "start"
  /\ IF SizeMismatch(psi.vec_X, psi.pp.RECEIVER_ITEM_NUM)
       THEN psi' = [psi EXCEPT !.rpc = "exit"]
       ELSE \E k2 \in {GenRandomBytes(ReSeed(fixed_seed, 0), 32)} :
              psi' = [psi EXCEPT
                 !.rpc = ReceiveSchedule[1], !.rn = 0, !.k2 = k2,
                 !.vec_Fk2_X = HashAndMul(k2, psi.vec_X, psi.pp.RECEIVER_ITEM_NUM)]
  /\ UNCHANGED <<OTEvars, bmt, zk, bf>>

\* io.ReceiveEC25519Points(vec_Fk1_Y.data(), SENDER_ITEM_NUM): one more point
\* leaves the channel
Flow_Receive_ReceivePoints ==
  /\ psi.pc = "flow" /\ psi.rpc = "ReceiveEC25519Points"
  /\ psi.s2r # <<>>
  /\ LET got == Append(psi.r_vec_Fk1_Y, Head(psi.s2r))
         last == Len(got) = psi.pp.SENDER_ITEM_NUM
     IN psi' = [psi EXCEPT
          !.s2r = Tail(psi.s2r),
          !.r_vec_Fk1_Y = got,
          !.rpc = IF last THEN CallAfter(ReceiveSchedule, psi.rpc) ELSE psi.rpc]
  /\ UNCHANGED <<OTEvars, bmt, zk, bf>>

\* io.SendEC25519Points(vec_Fk2_X.data(), RECEIVER_ITEM_NUM): one more point
\* enters the channel
Flow_Receive_SendPoints ==
  /\ psi.pc = "flow" /\ psi.rpc = "SendEC25519Points"
  /\ Len(psi.r2s) < psi.cap
  /\ LET last == psi.rn + 1 = psi.pp.RECEIVER_ITEM_NUM
     IN psi' = [psi EXCEPT
          !.r2s = Append(psi.r2s, psi.vec_Fk2_X[psi.rn + 1]),
          !.rn = IF last THEN 0 ELSE psi.rn + 1,
          !.rpc = IF last THEN CallAfter(ReceiveSchedule, psi.rpc) ELSE psi.rpc]
  /\ UNCHANGED <<OTEvars, bmt, zk, bf>>

\* io.ReceiveStringVector(vec_TRUNCATE_Fk1k2_X, TRUNCATE_LEN): one more string
\* leaves the channel; after the last, the set S, the intersection, and
\* Receive returns
Flow_Receive_ReceiveStrings ==
  /\ psi.pc = "flow" /\ psi.rpc = "ReceiveStringVector"
  /\ psi.s2r # <<>>
  /\ LET n == psi.pp.RECEIVER_ITEM_NUM
         m == psi.pp.SENDER_ITEM_NUM
         got == Append(psi.r_vec_TRUNCATE_Fk1k2_X, Head(psi.s2r))
         last == Len(got) = n
         vec_Fk2k1_Y == MulAll(psi.k2, psi.r_vec_Fk1_Y, m)
         S == {Truncate(vec_Fk2k1_Y[i], psi.pp.TRUNCATE_LEN) : i \in 1..m}
     IN psi' = [psi EXCEPT
          !.s2r = Tail(psi.s2r),
          !.r_vec_TRUNCATE_Fk1k2_X = got,
          !.vec_intersection = IF last THEN Intersection(psi.vec_X, got, S, n) ELSE Unset,
          !.rpc = IF last THEN CallAfter(ReceiveSchedule, psi.rpc) ELSE psi.rpc]
  /\ UNCHANGED <<OTEvars, bmt, zk, bf>>

SenderStep ==
  \/ Flow_Send_Begin
  \/ Flow_Send_SendPoints
  \/ Flow_Send_ReceivePoints
  \/ Flow_Send_SendStrings

ReceiverStep ==
  \/ Flow_Receive_Begin
  \/ Flow_Receive_ReceivePoints
  \/ Flow_Receive_SendPoints
  \/ Flow_Receive_ReceiveStrings

NextPSIFlow ==
  \/ Flow_Send_Begin
  \/ Flow_Send_SendPoints
  \/ Flow_Send_ReceivePoints
  \/ Flow_Send_SendStrings
  \/ Flow_Receive_Begin
  \/ Flow_Receive_ReceivePoints
  \/ Flow_Receive_SendPoints
  \/ Flow_Receive_ReceiveStrings

SpecPSIFlow == InitPSIFlow /\ [][NextPSIFlow]_vars

\* each party is a process of its own and runs whenever it is not blocked in
\* a channel call
SpecPSIFlowFair == SpecPSIFlow /\ WF_vars(SenderStep) /\ WF_vars(ReceiverStep)

\* neither party can take a step and at least one has not returned
BothBlocked ==
  /\ ~(psi.spc = "done" /\ psi.rpc = "done")
  /\ ~ENABLED SenderStep /\ ~ENABLED ReceiverStep

\* the receiver has all of A before it sends any of B, and the sender has
\* sent all of A before it receives any of B
AThenB ==
  /\ psi.rn > 0 \/ psi.r2s # <<>> \/ psi.s_vec_Fk2_X # <<>>
       => Len(psi.r_vec_Fk1_Y) = psi.pp.SENDER_ITEM_NUM
  /\ psi.s_vec_Fk2_X # <<>> => psi.spc # "SendEC25519Points"

\* C29: a PSI run over a reliable FIFO channel terminates with both parties
\* returned even when the channel buffers less than a whole array: the
\* receiver receives all of A before it sends B, the sender sends all of A
\* before it receives B, and no reachable state has both parties blocked.
C29_NoDeadlock ==
  /\ [](psi.pc = "flow" => (AThenB /\ ~BothBlocked))
  /\ <>(psi.spc = "done" /\ psi.rpc = "done")

\* both parties have returned from a run whose arrays are larger than the
\* channel's buffer, and the intersection is not empty
C29_Witness ==
  /\ psi.pc = "flow" /\ psi.spc = "done" /\ psi.rpc = "done"
  /\ psi.cap < psi.pp.SENDER_ITEM_NUM /\ psi.cap < psi.pp.RECEIVER_ITEM_NUM
  /\ psi.vec_intersection # <<>>
  /\ psi.s2r = <<>> /\ psi.r2s = <<>>

=============================================================================
